---- MODULE Spec2Model ----
(***************************************************************************)
(* Model of ProactiveCookieLearning (src/proactive_cookie_learning.py):    *)
(* the cookie_patterns table (store), the in-memory cookie_patterns dict  *)
(* (cache), banner detection and the three-tier handle_cookie_consent     *)
(* cascade with its feedback into the store.                              *)
(*                                                                         *)
(* Strings that the code lower-cases or searches (hosts, element texts,   *)
(* keywords) are sequences of one-character strings; effectiveness scores *)
(* are exact rationals <<numerator, denominator>>.                        *)
(***************************************************************************)
EXTENDS Integers, Sequences, FiniteSets, TLC

VARIABLES
    store,   \* rows of table cookie_patterns, in rowid order
    cache,   \* self.cookie_patterns: domain -> list of pattern dicts
    call,    \* the handle_cookie_consent invocation in flight, or Idle
    pre,     \* store and cache as they were when that invocation started
    result,  \* the (handled, reason) tuple the invocation returned
    trace    \* driver calls that had an effect or failed, in order

vars == <<store, cache, call, pre, result, trace>>

-----------------------------------------------------------------------------
(* Bounds of the model *)

\* a call is started only while the table holds fewer recorded outcomes
\* (success_count + failure_count over all rows) than this
MaxOutcomes == 3

\* _load_patterns is called again on an instance only while every domain has
\* fewer in-memory patterns than this
MaxCached == 4

\* on a table that has seen use, a call is started only while the table
\* holds fewer recorded outcomes than this
MaxAgedOutcomes == 4

\* in the sessions that also call _learn_new_pattern on its own, a call is
\* started only while the table holds fewer recorded outcomes than this
MaxUpsertOutcomes == 2

-----------------------------------------------------------------------------
(* Characters and strings *)

Uppers == <<"A","B","C","D","E","F","G","H","I","J","K","L","M",
            "N","O","P","Q","R","S","T","U","V","W","X","Y","Z">>
Lowers == <<"a","b","c","d","e","f","g","h","i","j","k","l","m",
            "n","o","p","q","r","s","t","u","v","w","x","y","z">>

SeqToSet(s) == { s[i] : i \in 1..Len(s) }

\* str.lower() on one character
LowerMap ==
    [ c \in { Uppers[i] : i \in 1..Len(Uppers) } |->
        Lowers[CHOOSE i \in 1..Len(Uppers) : Uppers[i] = c] ]

LowerChar(c) == IF c \in DOMAIN LowerMap THEN LowerMap[c] ELSE c

\* str.lower()
Lower(s) == [i \in 1..Len(s) |-> LowerChar(s[i])]

\* str.startswith(prefix)
StartsWith(s, prefix) ==
    /\ Len(prefix) <= Len(s)
    /\ SubSeq(s, 1, Len(prefix)) = prefix

\* needle in hay (substring test)
Contains(hay, needle) ==
    \E i \in 0..(Len(hay) - Len(needle)) :
        SubSeq(hay, i + 1, i + Len(needle)) = needle

-----------------------------------------------------------------------------
(* Effectiveness scores: exact rationals <<n, d>> with d > 0 *)

Ratio(n, d) == <<n, d>>
ScoreEq(a, b) == a[1] * b[2] = b[1] * a[2]
ScoreLess(a, b) == a[1] * b[2] < b[1] * a[2]
ScoreLeq(a, b) == a[1] * b[2] <= b[1] * a[2]

\* the literals 0.8, 0.2, 0.5 and 0.3 of the code
FirstSuccessPrior == Ratio(4, 5)
FirstFailurePrior == Ratio(1, 5)
NoUsesScore == Ratio(1, 2)
LoadFloor == Ratio(3, 10)

\* detect_cookie_consent stops at this many detected elements
EnoughEvidence == 3

-----------------------------------------------------------------------------
(* URLs and domains *)

\* the characters of a URL scheme: a letter, then letters, digits, + - .
Letters == SeqToSet(Uppers) \cup SeqToSet(Lowers)
SchemeChars ==
    Letters \cup {"0","1","2","3","4","5","6","7","8","9","+","-","."}

\* the first position of s at or after i that holds a character of cs, or
\* Len(s) + 1
RECURSIVE FirstOf(_, _, _)
FirstOf(s, cs, i) ==
    IF i > Len(s) THEN Len(s) + 1
    ELSE IF s[i] \in cs THEN i
    ELSE FirstOf(s, cs, i + 1)

\* urllib.parse.urlparse, as far as scheme, netloc and the rest go: the
\* scheme is what precedes the first ":" if that is a scheme; the netloc is
\* what follows "//" up to the next "/", "?" or "#"
urlparse(url) ==
    LET colon == FirstOf(url, {":"}, 1)
        has_scheme ==
            /\ 1 < colon /\ colon <= Len(url)
            /\ url[1] \in Letters
            /\ \A i \in 1..(colon - 1) : url[i] \in SchemeChars
        rest == IF has_scheme THEN SubSeq(url, colon + 1, Len(url)) ELSE url
        has_netloc == StartsWith(rest, <<"/", "/">>)
        stop == FirstOf(rest, {"/", "?", "#"}, 3)
    IN  [ scheme |-> IF has_scheme THEN Lower(SubSeq(url, 1, colon - 1))
                     ELSE <<>>,
          netloc |-> IF has_netloc THEN SubSeq(rest, 3, stop - 1) ELSE <<>>,
          path |-> IF has_netloc THEN SubSeq(rest, stop, Len(rest)) ELSE rest ]

\* 'www.'
WwwPrefix == <<"w","w","w",".">>

\* get_domain_from_url without lower-casing the netloc
get_domain_from_url_cased(url) ==
    LET parsed == urlparse(url)
        domain == parsed.netloc
    IN  IF StartsWith(domain, WwwPrefix)
        THEN SubSeq(domain, 5, Len(domain))
        ELSE domain

\* get_domain_from_url: netloc of the parsed URL, lower-cased, without one
\* leading "www."
get_domain_from_url(url) ==
    LET parsed == urlparse(url)
        domain == Lower(parsed.netloc)
    IN  IF StartsWith(domain, WwwPrefix)
        THEN SubSeq(domain, 5, Len(domain))
        ELSE domain

HostA == <<"a",".","i","o">>
HostB == <<"b",".","i","o">>

\* a URL string from its parts
Url(scheme, host, path) == scheme \o <<":", "/", "/">> \o host \o path

Https == <<"h","t","t","p","s">>
Http == <<"h","t","t","p">>
PathNews == <<"/","n","e","w","s">>

\* the URLs callers pass in
Urls ==
    { Url(Https, <<"W","w","w",".","A",".","i","o">>, PathNews),
      Url(Https, HostB, <<"/">>) }

Domains == { get_domain_from_url(u) : u \in Urls }

\* the site the session of Spec browses
SessionUrls == { u \in Urls : get_domain_from_url(u) = HostA }

-----------------------------------------------------------------------------
(* Fixed selector lists of the code *)

\* detect_cookie_consent: cookie_selectors
cookie_selectors ==
    << "[id*='cookie']", "[class*='cookie']", "[id*='consent']",
       "[class*='consent']", "[aria-label*='cookie' i]",
       "[aria-label*='consent' i]",
       "#cookieConsent", ".cookie-consent", ".cookie-banner",
       ".cookie-notice", ".gdpr-banner", ".privacy-banner",
       "#onetrust-banner-sdk", "#cookiescript_injected", ".cc-banner",
       ".cookielaw-banner",
       "button:has-text('Accept')", "button:has-text('Accept All')",
       "button:has-text('Allow')", "button:has-text('I Accept')",
       "button:has-text('Agree')", "button:has-text('OK')",
       "a:has-text('Accept')", "a:has-text('Accept All')" >>

\* handle_cookie_consent: fallback_selectors
fallback_selectors ==
    << "button:has-text('Accept All')", "button:has-text('Accept all')",
       "button:has-text('Accept')", "a:has-text('Accept All')",
       "a:has-text('Accept')",
       "#accept-cookies", "#acceptCookies", ".accept-cookies",
       ".accept-all", ".cookie-accept",
       "[aria-label*='Accept' i]", "[aria-label*='Allow' i]",
       "#onetrust-accept-btn-handler", ".ot-sdk-show-settings",
       "#cookiescript_accept", ".cc-allow", ".cookielaw-accept",
       "button[class*='accept']", "button[id*='accept']",
       "input[value*='Accept']",
       "button:has-text('Allow')", "button:has-text('I Accept')",
       "button:has-text('Agree')", "button:has-text('OK')",
       "button:has-text('Got it')", "a:has-text('I Accept')",
       "a:has-text('Agree')" >>

\* handle_cookie_consent: cookie_keywords, each with its characters
cookie_keywords ==
    << [name |-> "accept",   chars |-> <<"a","c","c","e","p","t">>],
       [name |-> "allow",    chars |-> <<"a","l","l","o","w">>],
       [name |-> "agree",    chars |-> <<"a","g","r","e","e">>],
       [name |-> "ok",       chars |-> <<"o","k">>],
       [name |-> "got it",   chars |-> <<"g","o","t"," ","i","t">>],
       [name |-> "continue", chars |-> <<"c","o","n","t","i","n","u","e">>] >>

-----------------------------------------------------------------------------
(* The cookie_patterns table *)

Row(d, sel, act, sc, fc, score) ==
    [ domain |-> d, selector_used |-> sel, action_type |-> act,
      success_count |-> sc, failure_count |-> fc,
      effectiveness_score |-> score ]

\* FindRow without the condition on the domain
FindRowAnyDomain(db, d, sel, act) ==
    LET hits == { i \in 1..Len(db) :
                    /\ db[i].selector_used = sel
                    /\ db[i].action_type = act }
    IN  IF hits = {} THEN 0
        ELSE CHOOSE i \in hits : \A j \in hits : i <= j

\* FindRow that finds no row
FindRowNone(db, d, sel, act) == 0

\* SELECT ... WHERE domain = ? AND selector_used = ? AND action_type = ?
\* followed by fetchone(): the first matching row, 0 when there is none
FindRow(db, d, sel, act) ==
    LET hits == { i \in 1..Len(db) :
                    /\ db[i].domain = d
                    /\ db[i].selector_used = sel
                    /\ db[i].action_type = act }
    IN  IF hits = {} THEN 0
        ELSE CHOOSE i \in hits : \A j \in hits : i <= j

\* UpdatedRow leaving the score as it was
UpdatedRowStaleScore(r, success) ==
    [ r EXCEPT !.success_count = IF success THEN @ + 1 ELSE @,
               !.failure_count = IF success THEN @ ELSE @ + 1 ]

\* UpdatedRow dividing by the number of uses before this one
UpdatedRowOldTotal(r, success) ==
    LET success_count == IF success THEN r.success_count + 1 ELSE r.success_count
        failure_count == IF success THEN r.failure_count ELSE r.failure_count + 1
        total_uses == r.success_count + r.failure_count
    IN  [ r EXCEPT !.success_count = success_count,
                   !.failure_count = failure_count,
                   !.effectiveness_score =
                       IF total_uses > 0 THEN Ratio(success_count, total_uses)
                       ELSE NoUsesScore ]

\* UpdatedRow with the branches of "if success" exchanged
UpdatedRowInverted(r, success) ==
    LET success_count == IF success THEN r.success_count ELSE r.success_count + 1
        failure_count == IF success THEN r.failure_count + 1 ELSE r.failure_count
        total_uses == success_count + failure_count
    IN  [ r EXCEPT !.success_count = success_count,
                   !.failure_count = failure_count,
                   !.effectiveness_score =
                       IF total_uses > 0 THEN Ratio(success_count, total_uses)
                       ELSE NoUsesScore ]

\* UpdatedRow counting from this outcome on
UpdatedRowRestarted(r, success) ==
    [ r EXCEPT !.success_count = IF success THEN 1 ELSE 0,
               !.failure_count = IF success THEN 0 ELSE 1,
               !.effectiveness_score =
                   IF success THEN Ratio(1, 1) ELSE Ratio(0, 1) ]

\* the counters and the score _record_pattern_usage writes back
UpdatedRow(r, success) ==
    LET success_count == IF success THEN r.success_count + 1 ELSE r.success_count
        failure_count == IF success THEN r.failure_count ELSE r.failure_count + 1
        total_uses == success_count + failure_count
    IN  [ r EXCEPT !.success_count = success_count,
                   !.failure_count = failure_count,
                   !.effectiveness_score =
                       IF total_uses > 0 THEN Ratio(success_count, total_uses)
                       ELSE NoUsesScore ]

\* record_pattern_usage without its try/except: a failing database call
\* leaves the function as an exception
record_pattern_usage_uncaught(db, dbOk, d, sel, act, success) ==
    LET i == FindRow(db, d, sel, act)
    IN  IF ~dbOk THEN [ store |-> db, raised |-> TRUE ]
        ELSE IF i = 0 THEN [ store |-> db, raised |-> FALSE ]
        ELSE [ store |-> [ db EXCEPT ![i] = UpdatedRow(db[i], success) ],
               raised |-> FALSE ]

\* _record_pattern_usage: the table afterwards, and whether an exception
\* leaves the function. A failing database call (dbOk = FALSE) is caught and
\* logged, the table is left as it was. The in-memory patterns are not
\* touched.
record_pattern_usage(db, dbOk, d, sel, act, success) ==
    LET i == FindRow(db, d, sel, act)
    IN  IF ~dbOk \/ i = 0 THEN [ store |-> db, raised |-> FALSE ]
        ELSE [ store |-> [ db EXCEPT ![i] = UpdatedRow(db[i], success) ],
               raised |-> FALSE ]

\* the dict _learn_new_pattern appends to self.cookie_patterns[domain]
Pattern(sel, act, score) ==
    [ selector |-> sel, action_type |-> act, effectiveness_score |-> score ]

\* NewRow scored by its counters instead of the prior
NewRowRatio(d, sel, act, success) ==
    Row(d, sel, act,
        IF success THEN 1 ELSE 0,
        IF success THEN 0 ELSE 1,
        IF success THEN Ratio(1, 1) ELSE Ratio(0, 1))

\* the row _learn_new_pattern inserts
NewRow(d, sel, act, success) ==
    Row(d, sel, act,
        IF success THEN 1 ELSE 0,
        IF success THEN 0 ELSE 1,
        IF success THEN FirstSuccessPrior ELSE FirstFailurePrior)

\* learn_new_pattern that appends to the in-memory list before it turns to
\* the database
learn_new_pattern_memory_first(db, mem, dbOk, d, sel, act, success) ==
    LET appended ==
            [ mem EXCEPT ![d] =
                  Append(@, Pattern(sel, act,
                             NewRow(d, sel, act, success).effectiveness_score)) ]
    IN  IF ~dbOk THEN [ store |-> db, cache |-> appended, raised |-> FALSE ]
        ELSE IF FindRow(db, d, sel, act) # 0
        THEN [ store |-> record_pattern_usage(db, dbOk, d, sel, act,
                                              success).store,
               cache |-> mem, raised |-> FALSE ]
        ELSE [ store |-> Append(db, NewRow(d, sel, act, success)),
               cache |-> appended, raised |-> FALSE ]

\* learn_new_pattern that inserts without looking for the key
learn_new_pattern_inserting(db, mem, dbOk, d, sel, act, success) ==
    IF ~dbOk THEN [ store |-> db, cache |-> mem, raised |-> FALSE ]
    ELSE [ store |-> Append(db, NewRow(d, sel, act, success)),
           cache |-> [ mem EXCEPT ![d] =
                          Append(@, Pattern(sel, act,
                                     NewRow(d, sel, act, success).effectiveness_score)) ],
           raised |-> FALSE ]

\* _learn_new_pattern: table and in-memory patterns afterwards, and whether
\* an exception leaves the function. An existing key is handed to
\* _record_pattern_usage and the function returns; a new key is inserted and
\* appended to the domain's in-memory list. A failing database call is caught
\* and logged and leaves both as they were.
learn_new_pattern(db, mem, dbOk, d, sel, act, success) ==
    IF ~dbOk THEN [ store |-> db, cache |-> mem, raised |-> FALSE ]
    ELSE IF FindRow(db, d, sel, act) # 0
    THEN LET used == record_pattern_usage(db, dbOk, d, sel, act, success)
         IN  [ store |-> used.store, cache |-> mem, raised |-> FALSE ]
    ELSE [ store |-> Append(db, NewRow(d, sel, act, success)),
           cache |-> [ mem EXCEPT ![d] =
                          Append(@, Pattern(sel, act,
                                     NewRow(d, sel, act, success).effectiveness_score)) ],
           raised |-> FALSE ]

\* SortDesc leaving the list as it is
SortDescNone(s) == s

\* sorted(patterns, key=effectiveness_score, reverse=True): stable, equal
\* scores keep their order
RECURSIVE InsertDesc(_, _)
InsertDesc(sorted, p) ==
    IF sorted = <<>> THEN <<p>>
    ELSE IF ScoreLess(Head(sorted).effectiveness_score, p.effectiveness_score)
    THEN <<p>> \o sorted
    ELSE <<Head(sorted)>> \o InsertDesc(Tail(sorted), p)

RECURSIVE SortDesc(_)
SortDesc(s) ==
    IF s = <<>> THEN <<>>
    ELSE InsertDesc(SortDesc(SubSeq(s, 1, Len(s) - 1)), s[Len(s)])

\* AboveFloor with >= for >
AboveFloorInclusive(r) == ScoreLeq(LoadFloor, r.effectiveness_score)

\* WHERE effectiveness_score > 0.3
AboveFloor(r) == ScoreLess(LoadFloor, r.effectiveness_score)

RowPattern(r) == Pattern(r.selector_used, r.action_type, r.effectiveness_score)

\* self.cookie_patterns = {} of __init__: no domain has a list yet
EmptyCache == [ d \in Domains |-> <<>> ]

\* _load_patterns on an instance whose in-memory patterns are mem: rows with
\* effectiveness_score > 0.3, ORDER BY effectiveness_score DESC (rows of
\* equal score in rowid order), each appended to its domain's list
load_patterns_into(mem, db) ==
    LET rows == SortDesc(SelectSeq(db, AboveFloor))
    IN  [ d \in Domains |->
            LET OfDomain(r) == r.domain = d
                mine == SelectSeq(rows, OfDomain)
            IN  mem[d] \o [ i \in 1..Len(mine) |-> RowPattern(mine[i]) ] ]

\* _load_patterns as __init__ calls it, on the empty dict
load_patterns(db) == load_patterns_into(EmptyCache, db)

-----------------------------------------------------------------------------
(* get_domain_statistics and get_global_statistics *)

\* a value of a result column: NULL (None in Python) or a number
Null == [ null |-> TRUE, value |-> 0 ]
NotNull(v) == [ null |-> FALSE, value |-> v ]

\* Python's "x or 0" (and "x or 0.0" with zero a rational)
OrZero(x, zero) == IF x.null THEN zero ELSE x.value

RECURSIVE SumOf(_, _)
SumOf(rows, field) ==
    IF rows = <<>> THEN 0 ELSE Head(rows)[field] + SumOf(Tail(rows), field)

\* SUM(field): NULL over no rows
SqlSum(rows, field) ==
    IF rows = <<>> THEN Null ELSE NotNull(SumOf(rows, field))

RECURSIVE ScoreSum(_)
ScoreSum(rows) ==
    IF rows = <<>> THEN Ratio(0, 1)
    ELSE LET a == Head(rows).effectiveness_score
             b == ScoreSum(Tail(rows))
         IN  Ratio(a[1] * b[2] + b[1] * a[2], a[2] * b[2])

\* AVG(effectiveness_score): NULL over no rows
SqlAvg(rows) ==
    IF rows = <<>> THEN Null
    ELSE NotNull(Ratio(ScoreSum(rows)[1], ScoreSum(rows)[2] * Len(rows)))

\* Python's "/": TypeError on None, ZeroDivisionError on a zero divisor
PyDiv(n, d) ==
    IF n.null THEN [ raised |-> "unsupported operand", value |-> Ratio(0, 1) ]
    ELSE IF d = 0 THEN [ raised |-> "division by zero", value |-> Ratio(0, 1) ]
    ELSE [ raised |-> "", value |-> Ratio(n.value, d) ]

\* SuccessRate dividing whatever the number of attempts
SuccessRateUnguarded(successes, total_attempts) ==
    PyDiv(NotNull(OrZero(successes, 0)), total_attempts)

\* (successes / total_attempts) if total_attempts > 0 else 0.0
SuccessRate(successes, total_attempts) ==
    IF total_attempts > 0 THEN PyDiv(successes, total_attempts)
    ELSE [ raised |-> "", value |-> Ratio(0, 1) ]

\* the dict of the except branch
StatisticsError(e) == [ error |-> e ]

\* get_domain_statistics: an exception (failing database call, division)
\* is caught and returned as {"error": ...}
get_domain_statistics(db, dbOk, domain) ==
    LET OfDomain(r) == r.domain = domain
        rows == SelectSeq(db, OfDomain)
        total_successes == SqlSum(rows, "success_count")
        total_failures == SqlSum(rows, "failure_count")
        total_attempts == OrZero(total_successes, 0) + OrZero(total_failures, 0)
        success_rate == SuccessRate(total_successes, total_attempts)
    IN  IF ~dbOk THEN StatisticsError("database")
        ELSE IF success_rate.raised # "" THEN StatisticsError(success_rate.raised)
        ELSE [ error |-> "",
               domain |-> domain,
               pattern_count |-> Len(rows),
               average_effectiveness |->
                   OrZero(SqlAvg(rows), Ratio(0, 1)),
               total_successes |-> OrZero(total_successes, 0),
               total_failures |-> OrZero(total_failures, 0),
               total_attempts |-> total_attempts,
               success_rate |-> success_rate.value ]

\* get_global_statistics
get_global_statistics(db, dbOk) ==
    LET successes == SqlSum(db, "success_count")
        failures == SqlSum(db, "failure_count")
        total_attempts == OrZero(successes, 0) + OrZero(failures, 0)
        global_success_rate == SuccessRate(successes, total_attempts)
    IN  IF ~dbOk THEN StatisticsError("database")
        ELSE IF global_success_rate.raised # ""
        THEN StatisticsError(global_success_rate.raised)
        ELSE [ error |-> "",
               domains_learned |->
                   Cardinality({ db[i].domain : i \in 1..Len(db) }),
               total_patterns |-> Len(db),
               average_effectiveness |->
                   OrZero(SqlAvg(db), Ratio(0, 1)),
               total_successes |-> OrZero(successes, 0),
               total_failures |-> OrZero(failures, 0),
               total_attempts |-> total_attempts,
               global_success_rate |-> global_success_rate.value ]

-----------------------------------------------------------------------------
(* The page behind the browser driver, as one call sees it *)

\* selectors of the lists (or of seeded rows) that a page may match
PageSelectors ==
    { "#acceptBtn", ".cookie-banner", "button:has-text('Accept All')" }

Element(tagName, id, className, text, visible) ==
    [ tagName |-> tagName, id |-> id, className |-> className,
      text |-> text, visible |-> visible ]

TextGotIt == <<"G","o","t"," ","i","t">>
TextAcceptContinue ==
    <<"A","c","c","e","p","t"," ","a","n","d"," ","C","o","n","t","i","n","u","e">>
TextCookiesGotIt ==
    <<"C","o","o","k","i","e","s","?"," ","G","o","t"," ","i","t">>

\* what page.locator("button, a, [role='button']").all() returns, in
\* document order; className is the class attribute split on spaces (a DIV
\* is an element with role='button')
ElementLists ==
    { <<>>,
      << Element("A", "", <<>>, TextGotIt, TRUE) >>,
      << Element("DIV", "", <<"btn", "primary">>, TextAcceptContinue, TRUE),
         Element("A", "", <<>>, TextGotIt, TRUE) >>,
      << Element("BUTTON", "", <<>>, TextGotIt, FALSE),
         Element("DIV", "", <<"btn">>, TextCookiesGotIt, TRUE) >> }

\* tagName.toLowerCase()
TagLower(tagName) ==
    CASE tagName = "BUTTON" -> "button"
      [] tagName = "A" -> "a"
      [] tagName = "DIV" -> "div"
      [] OTHER -> tagName

\* the script handle_cookie_consent evaluates on the clicked element
ElementSelector(el) ==
    IF el.id # "" THEN "#" \o el.id
    ELSE IF el.className # <<>> THEN "." \o el.className[1]
    ELSE TagLower(el.tagName)

\* the driver or element call of the call that raises, if any (kind "query",
\* "text", "click" with idx > 0 and "evaluate" are calls of the keyword scan,
\* which is reached only when no fallback selector is clicked)
NoFault == [ kind |-> "none", sel |-> "", idx |-> 0 ]
SelFault(kind, sel) == [ kind |-> kind, sel |-> sel, idx |-> 0 ]
ElemFault(kind, idx) == [ kind |-> kind, sel |-> "", idx |-> idx ]

FaultsOf(vis, elems) ==
    {NoFault}
    \cup { SelFault("locate", s) : s \in PageSelectors }
    \cup { SelFault(k, s) : k \in {"detect", "click"}, s \in vis }
    \cup (IF elems = <<>> \/ vis \cap SeqToSet(fallback_selectors) # {}
          THEN {}
          ELSE { ElemFault("query", 0) }
               \cup { ElemFault(k, i) : k \in {"text", "click", "evaluate"},
                                        i \in 1..Len(elems) })

\* the selectors whose first match is visible: those of vis and the ones
\* that select a visible clickable element
Shown(vis, elems) ==
    vis \cup { ElementSelector(elems[i]) :
                 i \in { j \in 1..Len(elems) : elems[j].visible } }

\* all: for the selectors it is defined on, the visibility of each element
\* page.locator(selector).all() returns; a selector it is not defined on
\* matches one visible element if it is in shown and nothing otherwise
Pages ==
    UNION { { [ vis |-> v, elems |-> e, fault |-> f, shown |-> Shown(v, e),
                all |-> <<>> ] :
              f \in FaultsOf(v, e) } :
            v \in SUBSET PageSelectors, e \in ElementLists }

\* is_visible() of each element of page.locator(selector).all()
Matches(page, selector) ==
    IF selector \in DOMAIN page.all THEN page.all[selector]
    ELSE IF selector \in page.shown THEN <<TRUE>>
    ELSE <<>>

\* a call on element idx of page.locator(sel).all() raises during detection
DetFault(sel, idx) == [ kind |-> "detect_element", sel |-> sel, idx |-> idx ]

Raises(page, kind, sel) == page.fault = SelFault(kind, sel)
ElemRaises(page, kind, idx) == page.fault = ElemFault(kind, idx)

\* is_visible() of the first element page.locator(selector) matches
IsVisible(page, selector) == selector \in page.shown

-----------------------------------------------------------------------------
(* detect_cookie_consent *)

Reverse(s) == [ i \in 1..Len(s) |-> s[Len(s) + 1 - i] ]

\* cookie_selectors after every learned selector of the domain was put at
\* index 0, one after the other
DetectionCandidates(mem, d) ==
    Reverse([ i \in 1..Len(mem[d]) |-> mem[d][i].selector ]) \o cookie_selectors

\* the dict appended to detected_elements
Evidence(selector, is_visible) ==
    [ selector |-> selector, is_visible |-> is_visible ]

\* DetectElements going on after the third detected element
DetectElementsAll(page, selector, j, detected_elements) ==
    detected_elements
    \o [ k \in 1..Cardinality({ e \in j..Len(Matches(page, selector)) :
                                   Matches(page, selector)[e] }) |->
           Evidence(selector, TRUE) ]

\* the loop over the elements of one candidate from element j on: a visible
\* element is appended, the loop ends at three detected elements; an
\* element whose call raises ends the candidate with what was collected
RECURSIVE DetectElements(_, _, _, _)
DetectElements(page, selector, j, detected_elements) ==
    IF j > Len(Matches(page, selector)) THEN detected_elements
    ELSE IF page.fault = DetFault(selector, j) THEN detected_elements
    ELSE LET is_visible == Matches(page, selector)[j]
         IN  IF is_visible
             THEN LET found == Append(detected_elements,
                                      Evidence(selector, is_visible))
                  IN  IF Len(found) >= EnoughEvidence THEN found
                      ELSE DetectElements(page, selector, j + 1, found)
             ELSE DetectElements(page, selector, j + 1, detected_elements)

RECURSIVE DetectScan(_, _, _, _)

\* DetectScan ending the scan at the first candidate that raises
DetectScanAborting(page, cands, i, acc) ==
    IF i > Len(cands) THEN acc
    ELSE
      LET here == [ acc EXCEPT !.scanned = Append(@, cands[i]) ]
      IN  IF Raises(page, "detect", cands[i])
             \/ \E j \in 1..Len(Matches(page, cands[i])) :
                    page.fault = DetFault(cands[i], j)
          THEN here
          ELSE LET found == DetectElements(page, cands[i], 1,
                                           acc.detected_elements)
                   next == [ here EXCEPT !.detected_elements = found ]
               IN  IF Len(found) >= EnoughEvidence THEN next
                   ELSE DetectScan(page, cands, i + 1, next)

\* the loop over the candidates from candidate i on: a candidate whose
\* element query raises is skipped, the scan ends once three elements were
\* collected. acc holds the detected elements and the candidates scanned.
DetectScan(page, cands, i, acc) ==
    IF i > Len(cands) THEN acc
    ELSE
      LET here == [ acc EXCEPT !.scanned = Append(@, cands[i]) ]
      IN  IF Raises(page, "detect", cands[i])
          THEN DetectScan(page, cands, i + 1, here)
          ELSE LET found == DetectElements(page, cands[i], 1,
                                           acc.detected_elements)
                   next == [ here EXCEPT !.detected_elements = found ]
               IN  IF Len(found) >= EnoughEvidence THEN next
                   ELSE DetectScan(page, cands, i + 1, next)

\* detected_elements = [] before the loop
NothingScanned == [ detected_elements |-> <<>>, scanned |-> <<>> ]

\* HasBanner with >= for >
HasBannerAlways(detected_elements) == Len(detected_elements) >= 0

\* has_cookie_banner = len(detected_elements) > 0
HasBanner(detected_elements) == Len(detected_elements) > 0

detect_cookie_consent(mem, page, url) ==
    LET domain == get_domain_from_url(url)
        detected_elements ==
            DetectScan(page, DetectionCandidates(mem, domain), 1,
                       NothingScanned).detected_elements
    IN  [ has_cookie_banner |-> HasBanner(detected_elements),
          detected_elements |-> detected_elements,
          domain |-> domain,
          confidence |->
              IF Len(detected_elements) >= EnoughEvidence THEN Ratio(1, 1)
              ELSE Ratio(Len(detected_elements), EnoughEvidence) ]

-----------------------------------------------------------------------------
(* handle_cookie_consent *)

\* one candidate the cascade tried: tier, selector, the action type (tiers 1
\* and 2) or keyword (tier 3), what happened, and whether element.click() /
\* element.hover() completed on it
Event(tier, selector, arg, outcome, clicked, hovered) ==
    [ tier |-> tier, selector |-> selector, arg |-> arg,
      outcome |-> outcome, clicked |-> clicked, hovered |-> hovered ]

\* the state a tier works on; done is set by a return statement
Going(db, mem, tr) ==
    [ store |-> db, cache |-> mem, trace |-> tr,
      done |-> FALSE, result |-> <<FALSE, "">> ]
Returned(db, mem, tr, handled, reason) ==
    [ store |-> db, cache |-> mem, trace |-> tr,
      done |-> TRUE, result |-> <<handled, reason>> ]

\* f"learned_pattern_{action_type}"
LearnedReason(action_type) == "learned_pattern_" \o action_type

\* f"text_detection_{keyword}"
TextReason(keyword) == "text_detection_" \o keyword.name

\* f"error_{str(e)}" of the outermost handler
ErrorReason == "error_database"

\* TextMatches without lower-casing the text
TextMatchesCaseSensitive(text, keyword) ==
    /\ text # <<>>
    /\ Contains(text, Lower(keyword.chars))

\* text and keyword.lower() in text.lower()
TextMatches(text, keyword) ==
    /\ text # <<>>
    /\ Contains(Lower(text), Lower(keyword.chars))

\* TryLearned that tries no pattern
TryLearnedNone(st, page, dbOk, domain, patterns, i) == st

\* Tier 1: the loop over the learned patterns, best score first. An element
\* that is not visible goes on without a record. A visible one gets its
\* action and a success record, and the call returns. Whatever raises in
\* between is caught: a failure is recorded and the loop goes on. An exception
\* out of that failure record would leave the loop for the outermost handler.
RECURSIVE TryLearned(_, _, _, _, _, _)
TryLearned(st, page, dbOk, domain, patterns, i) ==
    IF i > Len(patterns) THEN st
    ELSE
      LET selector == patterns[i].selector
          action_type == patterns[i].action_type
          Failed(outcome, clicked, hovered) ==
              LET used == record_pattern_usage(st.store, dbOk, domain, selector,
                                               action_type, FALSE)
                  tr == Append(st.trace, Event(1, selector, action_type,
                                               outcome, clicked, hovered))
              IN  IF used.raised
                  THEN Returned(used.store, st.cache, tr, FALSE, ErrorReason)
                  ELSE TryLearned(Going(used.store, st.cache, tr),
                                  page, dbOk, domain, patterns, i + 1)
          Succeeded(outcome, clicked, hovered) ==
              LET used == record_pattern_usage(st.store, dbOk, domain, selector,
                                               action_type, TRUE)
              IN  IF used.raised THEN Failed("record_error", clicked, hovered)
                  ELSE Returned(used.store, st.cache,
                                Append(st.trace, Event(1, selector, action_type,
                                                       outcome, clicked, hovered)),
                                TRUE, LearnedReason(action_type))
      IN  IF Raises(page, "locate", selector)
          THEN Failed("locate_error", FALSE, FALSE)
          ELSE IF ~IsVisible(page, selector)
          THEN TryLearned(
                   Going(st.store, st.cache,
                         Append(st.trace, Event(1, selector, action_type,
                                                "not_visible", FALSE, FALSE))),
                   page, dbOk, domain, patterns, i + 1)
          ELSE IF action_type = "click"
          THEN IF Raises(page, "click", selector)
               THEN Failed("click_error", FALSE, FALSE)
               ELSE Succeeded("clicked", TRUE, FALSE)
          ELSE IF action_type = "hover_click"
          THEN IF Raises(page, "click", selector)
               THEN Failed("click_error", FALSE, TRUE)
               ELSE Succeeded("clicked", TRUE, TRUE)
          ELSE Succeeded("no_action", FALSE, FALSE)

\* Tier 2: the loop over fallback_selectors. The first visible one is
\* clicked and learned and the call returns; whatever raises goes on to the
\* next selector.
RECURSIVE TryFallback(_, _, _, _, _)
TryFallback(st, page, dbOk, domain, i) ==
    IF i > Len(fallback_selectors) THEN st
    ELSE
      LET selector == fallback_selectors[i]
          Skip(outcome, clicked) ==
              TryFallback(
                  Going(st.store, st.cache,
                        Append(st.trace, Event(2, selector, "click",
                                               outcome, clicked, FALSE))),
                  page, dbOk, domain, i + 1)
      IN  IF Raises(page, "locate", selector) THEN Skip("locate_error", FALSE)
          ELSE IF ~IsVisible(page, selector) THEN Skip("not_visible", FALSE)
          ELSE IF Raises(page, "click", selector) THEN Skip("click_error", FALSE)
          ELSE LET learned == learn_new_pattern(st.store, st.cache, dbOk,
                                                domain, selector, "click", TRUE)
               IN  IF learned.raised THEN Skip("learn_error", TRUE)
                   ELSE Returned(learned.store, learned.cache,
                                 Append(st.trace, Event(2, selector, "click",
                                                        "clicked", TRUE, FALSE)),
                                 TRUE, "fallback_click")

\* Tier 3: for each keyword, every clickable element whose text contains it.
\* The first visible one is clicked, its selector is derived and learned and
\* the call returns. Whatever raises inside the element loop (reading the
\* text, the click, deriving the selector, learning) goes on to the next
\* element; a raising element query goes on to the next keyword.
RECURSIVE TryText(_, _, _, _, _, _)
TryText(st, page, dbOk, domain, k, j) ==
    IF k > Len(cookie_keywords) THEN st
    ELSE IF ElemRaises(page, "query", 0)
    THEN TryText(Going(st.store, st.cache,
                       Append(st.trace, Event(3, "", cookie_keywords[k].name,
                                              "query_error", FALSE, FALSE))),
                 page, dbOk, domain, k + 1, 1)
    ELSE IF j > Len(page.elems) THEN TryText(st, page, dbOk, domain, k + 1, 1)
    ELSE
      LET element == page.elems[j]
          keyword == cookie_keywords[k]
          Skip(outcome, clicked) ==
              TryText(Going(st.store, st.cache,
                            Append(st.trace, Event(3, ElementSelector(element),
                                                   keyword.name, outcome,
                                                   clicked, FALSE))),
                      page, dbOk, domain, k, j + 1)
      IN  IF ElemRaises(page, "text", j) THEN Skip("text_error", FALSE)
          ELSE IF ~TextMatches(element.text, keyword)
          THEN TryText(st, page, dbOk, domain, k, j + 1)
          ELSE IF ~element.visible THEN Skip("not_visible", FALSE)
          ELSE IF ElemRaises(page, "click", j) THEN Skip("click_error", FALSE)
          ELSE IF ElemRaises(page, "evaluate", j) THEN Skip("evaluate_error", TRUE)
          ELSE LET element_selector == ElementSelector(element)
                   learned == learn_new_pattern(st.store, st.cache, dbOk,
                                                domain, element_selector,
                                                "click", TRUE)
               IN  IF learned.raised THEN Skip("learn_error", TRUE)
                   ELSE Returned(learned.store, learned.cache,
                                 Append(st.trace, Event(3, element_selector,
                                                        keyword.name, "clicked",
                                                        TRUE, FALSE)),
                                 TRUE, TextReason(keyword))

\* handle_cookie_consent: detection, then the three tiers in order, each
\* entered only when the one before it did not return
handle_cookie_consent(db, mem, page, url, dbOk) ==
    LET domain == get_domain_from_url(url)
        detection_result == detect_cookie_consent(mem, page, url)
    IN  IF ~detection_result.has_cookie_banner
        THEN Returned(db, mem, <<>>, TRUE, "no_banner_detected")
        ELSE
          LET t1 == TryLearned(Going(db, mem, <<>>), page, dbOk, domain,
                               SortDesc(mem[domain]), 1)
          IN  IF t1.done THEN t1
              ELSE
                LET t2 == TryFallback(t1, page, dbOk, domain, 1)
                IN  IF t2.done THEN t2
                    ELSE
                      LET t3 == TryText(t2, page, dbOk, domain, 1, 1)
                      IN  IF t3.done THEN t3
                          ELSE Returned(t3.store, t3.cache, t3.trace,
                                        FALSE, "no_suitable_element_found")

-----
(* The tables a process may find when it starts *)

SeedStores ==
    { <<>>,
      << Row(HostA, "#acceptBtn", "click", 1, 0, FirstSuccessPrior) >>,
      << Row(HostA, "#acceptBtn", "hover_click", 1, 0, FirstSuccessPrior),
         Row(HostA, ".cookie-banner", "focus", 1, 0, FirstSuccessPrior) >>,
      << Row(HostA, "button:has-text('Accept All')", "click", 0, 1,
             FirstFailurePrior) >>,
      << Row(HostA, ".cookie-banner", "click", 1, 0, FirstSuccessPrior),
         Row(HostA, "#acceptBtn", "click", 1, 0, FirstSuccessPrior) >> }

-----------------------------------------------------------------------------
(* State machine *)

Idle == [ state |-> "idle" ]
NoSnapshot == [ store |-> <<>>, cache |-> EmptyCache ]
NoResult == <<FALSE, "">>

Uses(r) == r.success_count + r.failure_count

RECURSIVE TotalUses(_)
TotalUses(db) ==
    IF db = <<>> THEN 0 ELSE Uses(Head(db)) + TotalUses(Tail(db))

\* __init__: the tables exist, the in-memory patterns are loaded from them
Init ==
    /\ store \in SeedStores
    /\ cache = load_patterns(store)
    /\ call = Idle
    /\ pre = NoSnapshot
    /\ result = NoResult
    /\ trace = <<>>

\* one whole handle_cookie_consent(page, url) call
Handle(url, page, dbOk) ==
    /\ call = Idle
    /\ \E out \in { handle_cookie_consent(store, cache, page, url, dbOk) } :
           /\ store' = out.store
           /\ cache' = out.cache
           /\ result' = out.result
           /\ trace' = out.trace
    /\ call' = [ state |-> "returned", url |-> url, page |-> page, dbOk |-> dbOk ]
    /\ pre' = [ store |-> store, cache |-> cache ]

HandleConsent(url, page, dbOk) ==
    /\ TotalUses(store) < MaxOutcomes
    /\ Handle(url, page, dbOk)

\* the caller takes the returned tuple
TakeResult ==
    /\ call # Idle
    /\ call' = Idle
    /\ pre' = NoSnapshot
    /\ result' = NoResult
    /\ trace' = <<>>
    /\ UNCHANGED <<store, cache>>

\* the process ends and a new one is constructed on the same database
Restart ==
    /\ call = Idle
    /\ cache' = load_patterns(store)
    /\ UNCHANGED <<store, call, pre, result, trace>>

Next ==
    \/ \E url \in SessionUrls, page \in Pages, dbOk \in BOOLEAN :
           /\ dbOk \/ page.fault = NoFault
           /\ HandleConsent(url, page, dbOk)
    \/ TakeResult
    \/ Restart

Spec == Init /\ [][Next]_vars

TypeOK ==
    /\ \A i \in 1..Len(store) : store[i].domain \in Domains
    /\ DOMAIN cache = Domains

-----------------------------------------------------------------------------
(* Loading, statistics and domain keys on tables that have seen use *)

QueryStores ==
    { <<>>,
      << Row(HostA, "#acceptBtn", "click", 1, 0, FirstSuccessPrior) >>,
      << Row(HostA, "button:has-text('Accept All')", "click", 0, 1,
             FirstFailurePrior) >>,
      << Row(HostA, "#acceptBtn", "click", 1, 1, Ratio(1, 2)),
         Row(HostA, "button:has-text('Accept All')", "click", 1, 0,
             FirstSuccessPrior),
         Row(HostB, ".cookie-banner", "click", 3, 1, Ratio(3, 4)) >>,
      << Row(HostB, "a", "click", 1, 0, FirstSuccessPrior),
         Row(HostA, ".btn", "click", 2, 0, Ratio(2, 2)),
         Row(HostA, "a", "click", 0, 3, Ratio(0, 3)) >> }

InitQueries ==
    /\ store \in QueryStores
    /\ cache = load_patterns(store)
    /\ call = Idle
    /\ pre = NoSnapshot
    /\ result = NoResult
    /\ trace = <<>>

\* _load_patterns() once more on the same instance
LoadAgain ==
    /\ call = Idle
    /\ \A d \in Domains : Len(cache[d]) < MaxCached
    /\ cache' = load_patterns_into(cache, store)
    /\ call' = [ state |-> "loaded" ]
    /\ pre' = [ store |-> store, cache |-> cache ]
    /\ UNCHANGED <<store, result, trace>>

\* a domain no table has a row for
HostC == <<"c",".","i","o">>

\* get_domain_statistics(domain)
GetDomainStatistics(domain, dbOk) ==
    /\ call = Idle
    /\ call' = [ state |-> "domain_statistics", domain |-> domain,
                 dbOk |-> dbOk ]
    /\ result' = get_domain_statistics(store, dbOk, domain)
    /\ pre' = [ store |-> store, cache |-> cache ]
    /\ UNCHANGED <<store, cache, trace>>

\* get_global_statistics()
GetGlobalStatistics(dbOk) ==
    /\ call = Idle
    /\ call' = [ state |-> "global_statistics", dbOk |-> dbOk ]
    /\ result' = get_global_statistics(store, dbOk)
    /\ pre' = [ store |-> store, cache |-> cache ]
    /\ UNCHANGED <<store, cache, trace>>

\* hosts, schemes and paths of the URLs whose domain key is asked for
QueryHosts ==
    { HostA, WwwPrefix \o HostA, WwwPrefix \o WwwPrefix \o HostA,
      <<"W","w","w",".","A",".","i","o">>, <<"A",".","I","O">>,
      HostB, <<"W","W","W",".","b",".","i","o">> }
QuerySchemes == { Http, Https }
QueryPaths == { <<>>, <<"/">>, PathNews }

\* get_domain_from_url(url)
GetDomain(scheme, host, path) ==
    /\ call = Idle
    /\ call' = [ state |-> "domain", scheme |-> scheme, host |-> host,
                 path |-> path ]
    /\ result' = get_domain_from_url(Url(scheme, host, path))
    /\ pre' = [ store |-> store, cache |-> cache ]
    /\ UNCHANGED <<store, cache, trace>>

NextQueries ==
    \/ LoadAgain
    \/ \E scheme \in QuerySchemes, host \in QueryHosts, path \in QueryPaths :
           GetDomain(scheme, host, path)
    \/ \E domain \in Domains \cup {HostC}, dbOk \in BOOLEAN :
           GetDomainStatistics(domain, dbOk)
    \/ \E dbOk \in BOOLEAN : GetGlobalStatistics(dbOk)
    \/ TakeResult
    \/ Restart

SpecQueries == InitQueries /\ [][NextQueries]_vars

-----------------------------------------------------------------------------
(* Sessions on a table that has seen use *)

AgedStores ==
    { << Row(HostA, "#acceptBtn", "click", 1, 1, Ratio(1, 2)) >>,
      << Row(HostA, ".cookie-banner", "click", 1, 0, FirstSuccessPrior),
         Row(HostA, "#acceptBtn", "click", 2, 0, Ratio(2, 2)) >> }

InitAged ==
    /\ store \in AgedStores
    /\ cache = load_patterns(store)
    /\ call = Idle
    /\ pre = NoSnapshot
    /\ result = NoResult
    /\ trace = <<>>

HandleConsentAged(url, page, dbOk) ==
    /\ TotalUses(store) < MaxAgedOutcomes
    /\ Handle(url, page, dbOk)

NextAged ==
    \/ \E url \in SessionUrls, page \in Pages, dbOk \in BOOLEAN :
           /\ dbOk \/ page.fault = NoFault
           /\ HandleConsentAged(url, page, dbOk)
    \/ TakeResult
    \/ Restart

SpecAged == InitAged /\ [][NextAged]_vars

-----------------------------------------------------------------------------
(* Detection on pages whose selectors match several elements *)

DetectStores == AgedStores \cup { <<>> }

\* the selectors the pages of SpecDetect have matches for: the learned ones
\* and three of cookie_selectors
DetectSelectors ==
    { "#acceptBtn", ".cookie-banner", "[id*='cookie']",
      "button:has-text('Accept All')" }

\* is_visible() of the elements one selector matches
VisibilityLists == { <<>>, <<FALSE, TRUE>>, <<TRUE, TRUE, TRUE, TRUE>> }

\* at most one raising call per detection: the element query of a selector
\* or a call on one of its elements
DetectFaultsOf(all) ==
    {NoFault}
    \cup { SelFault("detect", sel) : sel \in { x \in DOMAIN all : all[x] # <<>> } }
    \cup UNION { { DetFault(sel, j) : j \in 1..Len(all[sel]) } : sel \in DOMAIN all }

DetectPages ==
    UNION { { [ vis |-> {}, elems |-> <<>>, fault |-> f,
                shown |-> { sel \in DOMAIN a : a[sel] # <<>> /\ a[sel][1] },
                all |-> a ] :
              f \in DetectFaultsOf(a) } :
            a \in [ DetectSelectors -> VisibilityLists ] }

InitDetect ==
    /\ store \in DetectStores
    /\ cache = load_patterns(store)
    /\ call = Idle
    /\ pre = NoSnapshot
    /\ result = NoResult
    /\ trace = <<>>

\* one detect_cookie_consent(page, url) call; trace takes the candidates
\* whose elements were queried, in the order of the queries
DetectBanner(url, page) ==
    /\ call = Idle
    /\ call' = [ state |-> "detected", url |-> url, page |-> page ]
    /\ result' = detect_cookie_consent(cache, page, url)
    /\ trace' = DetectScan(page,
                           DetectionCandidates(cache, get_domain_from_url(url)),
                           1, NothingScanned).scanned
    /\ pre' = [ store |-> store, cache |-> cache ]
    /\ UNCHANGED <<store, cache>>

NextDetect ==
    \/ \E url \in SessionUrls, page \in DetectPages : DetectBanner(url, page)
    \/ TakeResult

SpecDetect == InitDetect /\ [][NextDetect]_vars

-----------------------------------------------------------------------------
(* What the properties talk about *)

\* a handle_cookie_consent call has returned
InCall == call.state = "returned"
CallDomain == get_domain_from_url(call.url)

\* the detection of the call, on the patterns the call started with,
\* collected evidence of a banner
Detected ==
    detect_cookie_consent(pre.cache, call.page, call.url).detected_elements # <<>>

\* the learned patterns of the call's domain in the order Tier 1 tries them
Ranked == SortDesc(pre.cache[CallDomain])

\* no driver call on the selector raises in this call
NoFaultOn(selector) == call.page.fault.sel # selector

\* no call on a clickable element of the keyword scan raises in this call
NoElementFault ==
    call.page.fault.kind \notin {"query", "text", "evaluate"}
    /\ call.page.fault.idx = 0

Clicked == { i \in 1..Len(trace) : trace[i].clicked }
Hovered == { i \in 1..Len(trace) : trace[i].hovered }

\* the row is scored by its counters
ExactScore(r) ==
    ScoreEq(r.effectiveness_score, Ratio(r.success_count, Uses(r)))

\* the row is as _learn_new_pattern inserts it
PriorRow(r) ==
    \/ /\ r.success_count = 1 /\ r.failure_count = 0
       /\ r.effectiveness_score = FirstSuccessPrior
    \/ /\ r.success_count = 0 /\ r.failure_count = 1
       /\ r.effectiveness_score = FirstFailurePrior

\* rows the call wrote: rows it changed, rows it inserted
ChangedRows ==
    { i \in 1..Len(pre.store) : store[i] # pre.store[i] }
InsertedRows == (Len(pre.store) + 1)..Len(store)

-----------------------------------------------------------------------------
(* C1 *)

\* C1 as claimed: after a call, every row the call wrote (updated or first
\* inserted) with a positive number of uses has effectiveness_score equal to
\* success_count / (success_count + failure_count).
C1_ScoreIsRatioOfEveryWrittenRow ==
    InCall =>
        \A i \in ChangedRows \cup InsertedRows :
            Uses(store[i]) > 0 => ExactScore(store[i])

\* C1 amended: every row with a positive number of uses is scored by its
\* counters or is still as it was inserted (1/0 with 0.8, 0/1 with 0.2);
\* every row a call updated is scored by its counters, and every row a call
\* inserted has counters 1/0 and score 0.8.
C1_ScoreIsRatioOncePastThePrior ==
    /\ \A i \in 1..Len(store) :
           Uses(store[i]) > 0 => (ExactScore(store[i]) \/ PriorRow(store[i]))
    /\ InCall =>
           /\ \A i \in ChangedRows : ExactScore(store[i])
           /\ \A i \in InsertedRows :
                  /\ store[i].success_count = 1
                  /\ store[i].failure_count = 0
                  /\ store[i].effectiveness_score = FirstSuccessPrior

\* a call that updated one row and inserted another
C1_Witness ==
    /\ InCall
    /\ ChangedRows # {}
    /\ InsertedRows # {}

-----------------------------------------------------------------------------
(* C2 *)

InUnitInterval(score) ==
    /\ score[2] > 0
    /\ 0 <= score[1]
    /\ score[1] <= score[2]

\* C2: in every reachable state every row of the table and every in-memory
\* pattern has 0 <= effectiveness_score <= 1, and success_count and
\* failure_count are non-negative integers.
C2_ScoresAndCountsInRange ==
    /\ \A i \in 1..Len(store) :
           /\ InUnitInterval(store[i].effectiveness_score)
           /\ store[i].success_count \in Nat
           /\ store[i].failure_count \in Nat
    /\ \A d \in Domains : \A i \in 1..Len(cache[d]) :
           InUnitInterval(cache[d][i].effectiveness_score)

\* a call recorded a success on a row that already had uses, with patterns
\* in memory
C2_Witness ==
    /\ InCall
    /\ \E i \in ChangedRows :
           /\ store[i].success_count = pre.store[i].success_count + 1
           /\ Uses(pre.store[i]) > 0
    /\ cache[CallDomain] # <<>>

-----------------------------------------------------------------------------
(* C3 *)

\* the pattern at position i of the ranking is the first visible one
FirstVisible(i) ==
    /\ IsVisible(call.page, Ranked[i].selector)
    /\ \A j \in 1..(i - 1) : ~IsVisible(call.page, Ranked[j].selector)

\* C3: if the domain has a cached pattern (S, "click") whose element is
\* visible while no pattern ranked before it is visible, and no driver call
\* on S and no database call fails, the call returns
\* (True, "learned_pattern_click") and the row of S has success_count one
\* higher and failure_count unchanged.
C3_LearnedClickSucceeds ==
    InCall =>
        \A i \in 1..Len(Ranked) :
            ( /\ Ranked[i].action_type = "click"
              /\ FirstVisible(i)
              /\ NoFaultOn(Ranked[i].selector)
              /\ call.dbOk )
            => LET k == FindRow(pre.store, CallDomain, Ranked[i].selector, "click")
               IN  /\ result = <<TRUE, "learned_pattern_click">>
                   /\ k # 0
                   /\ store[k].success_count = pre.store[k].success_count + 1
                   /\ store[k].failure_count = pre.store[k].failure_count

\* the second-ranked of two cached patterns was the first visible one and
\* was clicked
C3_Witness ==
    /\ InCall
    /\ Len(Ranked) >= 2
    /\ Ranked[2].action_type = "click"
    /\ FirstVisible(2)
    /\ NoFaultOn(Ranked[2].selector)
    /\ call.dbOk
    /\ result = <<TRUE, "learned_pattern_click">>

-----------------------------------------------------------------------------
(* C4 *)

AcceptAll == "button:has-text('Accept All')"

\* no learned pattern of the domain, in memory or in the table, has a
\* visible element
NoLearnedVisible ==
    /\ \A i \in 1..Len(Ranked) : ~IsVisible(call.page, Ranked[i].selector)
    /\ \A i \in 1..Len(pre.store) :
           pre.store[i].domain = CallDomain
           => ~IsVisible(call.page, pre.store[i].selector_used)

\* C4: if a banner is detected, no learned pattern of the domain has a
\* visible element and button:has-text('Accept All') is visible (no driver
\* call on it and no database call failing), the call returns
\* (True, "fallback_click") and one row (domain, that selector, "click") with
\* success_count 1, failure_count 0 and effectiveness_score 0.8 is added.
C4_FallbackClickLearnsWithPrior ==
    ( /\ InCall
      /\ Detected
      /\ NoLearnedVisible
      /\ IsVisible(call.page, AcceptAll)
      /\ NoFaultOn(AcceptAll)
      /\ call.dbOk )
    => /\ result = <<TRUE, "fallback_click">>
       /\ Len(store) = Len(pre.store) + 1
       /\ store[Len(store)] =
              Row(CallDomain, AcceptAll, "click", 1, 0, FirstSuccessPrior)

\* the fallback was clicked on a domain that had a learned pattern
C4_Witness ==
    /\ InCall
    /\ Detected
    /\ Ranked # <<>>
    /\ NoLearnedVisible
    /\ IsVisible(call.page, AcceptAll)
    /\ result = <<TRUE, "fallback_click">>
    /\ Len(store) = Len(pre.store) + 1

-----------------------------------------------------------------------------
(* C5 *)

GotIt == cookie_keywords[5]

NoFallbackVisible ==
    \A i \in 1..Len(fallback_selectors) :
        ~IsVisible(call.page, fallback_selectors[i])

\* C5: if a banner is detected, no learned pattern and no fallback selector
\* has a visible match, a visible clickable element has a text containing
\* "Got it", no clickable element's text contains one of the keywords before
\* "got it", and no call on a clickable element raises, the call returns
\* (True, "text_detection_got it").
C5_GotItTextDetected ==
    ( /\ InCall
      /\ Detected
      /\ NoLearnedVisible
      /\ NoFallbackVisible
      /\ NoElementFault
      /\ \E j \in 1..Len(call.page.elems) :
             /\ call.page.elems[j].visible
             /\ Contains(call.page.elems[j].text, TextGotIt)
      /\ \A j \in 1..Len(call.page.elems) : \A k \in 1..4 :
             ~Contains(Lower(call.page.elems[j].text),
                       cookie_keywords[k].chars) )
    => result = <<TRUE, "text_detection_got it">>

\* a "Got it" link was clicked by the keyword scan
C5_Witness ==
    /\ InCall
    /\ Detected
    /\ NoFallbackVisible
    /\ result = <<TRUE, "text_detection_got it">>
    /\ \E i \in Clicked : trace[i].tier = 3 /\ trace[i].arg = "got it"

-----------------------------------------------------------------------------
(* C6 *)

\* C6: if detection collects no evidence, the call returns
\* (True, "no_banner_detected"), no candidate of any tier is tried, nothing
\* is clicked or hovered, and table and in-memory patterns are unchanged.
C6_NoBannerTouchesNothing ==
    (InCall /\ ~Detected)
    => /\ result = <<TRUE, "no_banner_detected">>
       /\ trace = <<>>
       /\ Clicked = {} /\ Hovered = {}
       /\ store = pre.store
       /\ cache = pre.cache

\* no banner was detected although the domain has a learned pattern and the
\* page shows a clickable element
C6_Witness ==
    /\ InCall
    /\ ~Detected
    /\ Ranked # <<>>
    /\ call.page.shown # {}
    /\ result = <<TRUE, "no_banner_detected">>

-----------------------------------------------------------------------------
(* C7 *)

\* C7: if a banner is detected and element.click() completes on no candidate
\* of any tier, the call returns (False, "no_suitable_element_found").
C7_NoClickMeansNotHandled ==
    (InCall /\ Detected /\ Clicked = {})
    => result = <<FALSE, "no_suitable_element_found">>

-----------------------------------------------------------------------------
(* C8 *)

KnownReasons ==
    { "no_banner_detected", "fallback_click", "no_suitable_element_found" }
    \cup { "learned_pattern_" \o Ranked[i].action_type : i \in 1..Len(Ranked) }
    \cup { "text_detection_" \o cookie_keywords[k].name :
           k \in 1..Len(cookie_keywords) }

\* C8: whatever driver call or database call fails, the call hands its
\* caller a (boolean, reason) pair, never an exception or the outermost
\* handler's "error_..." reason; the reason is "no_banner_detected",
\* "learned_pattern_<action type>", "fallback_click",
\* "text_detection_<keyword>" or "no_suitable_element_found".
C8_ReturnsKnownReason ==
    InCall =>
        /\ result[1] \in BOOLEAN
        /\ result[2] \in KnownReasons

\* a learned pattern was clicked while the database call recording it failed
C8_Witness ==
    /\ InCall
    /\ ~call.dbOk
    /\ Clicked # {}
    /\ result = <<TRUE, "learned_pattern_click">>
    /\ store = pre.store

-----------------------------------------------------------------------------
(* C9 *)

\* C9: within one call element.click() completes on at most one candidate:
\* once a click has succeeded no further candidate is clicked.
C9_AtMostOneClick == Cardinality(Clicked) <= 1

-----------------------------------------------------------------------------
(* C10 *)

\* the candidates of the call for which an outcome was recorded, as
\* <<selector, action type>>
RecordedKeys ==
    { <<trace[i].selector, trace[i].arg>> :
        i \in { j \in 1..Len(trace) :
                  /\ trace[j].tier = 1
                  /\ trace[j].outcome # "not_visible" } }
    \cup { <<trace[i].selector, "click">> :
        i \in { j \in 1..Len(trace) :
                  /\ trace[j].tier \in {2, 3}
                  /\ trace[j].outcome = "clicked" } }

SortedDesc(patterns) ==
    \A i \in 1..(Len(patterns) - 1) :
        ScoreLeq(patterns[i + 1].effectiveness_score,
                 patterns[i].effectiveness_score)

\* C10: after every outcome recorded for a key (success or failure, the
\* database call succeeding), the domain's in-memory entry of that key has
\* the effectiveness_score of the table row, and the domain's in-memory list
\* is in descending order of effectiveness_score.
C10_CacheMirrorsStore ==
    (InCall /\ call.dbOk /\ RecordedKeys # {})
    => /\ \A key \in RecordedKeys :
              LET k == FindRow(store, CallDomain, key[1], key[2])
              IN  /\ k # 0
                  /\ \E j \in 1..Len(cache[CallDomain]) :
                         /\ cache[CallDomain][j].selector = key[1]
                         /\ cache[CallDomain][j].action_type = key[2]
                         /\ ScoreEq(cache[CallDomain][j].effectiveness_score,
                                    store[k].effectiveness_score)
       /\ SortedDesc(cache[CallDomain])

-----------------------------------------------------------------------------
(* C11 *)

\* no two entries of the list have the same selector and action type
NoDuplicates(patterns) ==
    \A i, j \in 1..Len(patterns) :
        ( /\ patterns[i].selector = patterns[j].selector
          /\ patterns[i].action_type = patterns[j].action_type ) => i = j

\* C11: loading the patterns a second time from a table with the same
\* contents, on the same instance, leaves every domain with the list the
\* first load gave it, and no list ever holds an entry twice.
C11_SecondLoadGivesSameLists ==
    /\ call.state = "loaded" => cache = pre.cache
    /\ \A d \in Domains : NoDuplicates(cache[d])

-----------------------------------------------------------------------------
(* C12 *)

InStatistics == call.state \in {"domain_statistics", "global_statistics"}

\* the rows the statistics call is about
RowsInScope ==
    IF call.state = "domain_statistics"
    THEN LET OfDomain(r) == r.domain = call.domain
         IN  SelectSeq(store, OfDomain)
    ELSE store

ReportedRate ==
    IF call.state = "domain_statistics" THEN result.success_rate
    ELSE result.global_success_rate

\* C12: get_global_statistics and get_domain_statistics never end in a
\* division by zero, and when the rows in scope have no attempts at all
\* (empty table, unknown domain) and the database answers, they report
\* success rate 0.0.
C12_NoAttemptsGivesZeroRate ==
    InStatistics =>
        /\ result.error # "division by zero"
        /\ (call.dbOk /\ TotalUses(RowsInScope) = 0) =>
               /\ result.error = ""
               /\ result.total_attempts = 0
               /\ ReportedRate = Ratio(0, 1)

\* statistics of a domain without rows were asked of a table that has rows
C12_Witness ==
    /\ call.state = "domain_statistics"
    /\ call.dbOk
    /\ store # <<>>
    /\ RowsInScope = <<>>
    /\ result.error = ""
    /\ result.success_rate = Ratio(0, 1)

-----------------------------------------------------------------------------
(* C13 *)

\* the hosts are the same up to letter case and one leading "www."
SameHostButWww(h1, h2) ==
    \/ Lower(h1) = Lower(h2)
    \/ Lower(h1) = WwwPrefix \o Lower(h2)
    \/ Lower(h2) = WwwPrefix \o Lower(h1)

SameHostButOneWww(h1, h2) ==
    \/ Lower(h1) = Lower(h2)
    \/ /\ Lower(h1) = WwwPrefix \o Lower(h2)
       /\ ~StartsWith(Lower(h2), WwwPrefix)
    \/ /\ Lower(h2) = WwwPrefix \o Lower(h1)
       /\ ~StartsWith(Lower(h1), WwwPrefix)

-----------------------------------------------------------------------------
(* C14 *)

Tier1Events == { i \in 1..Len(trace) : trace[i].tier = 1 }

\* C14: for every learned pattern Tier 1 attempted (the database answering),
\* the row of its key has exactly one more use than before the call: one
\* more success if its click completed, one more failure otherwise (locator
\* error, element not visible, click error).
C14_EveryTier1AttemptRecordedOnce ==
    (InCall /\ call.dbOk) =>
        \A i \in Tier1Events :
            LET k == FindRow(pre.store, CallDomain, trace[i].selector,
                             trace[i].arg)
            IN  /\ k # 0
                /\ Uses(store[k]) = Uses(pre.store[k]) + 1
                /\ trace[i].clicked
                   <=> store[k].success_count = pre.store[k].success_count + 1

-----------------------------------------------------------------------------
(* C15 *)

Tier2Events == { i \in 1..Len(trace) : trace[i].tier = 2 }
Tier3Events == { i \in 1..Len(trace) : trace[i].tier = 3 }

\* the call went past Tier 1, past Tier 2
PastTier1 ==
    \/ Tier2Events # {} \/ Tier3Events # {}
    \/ result[2] \notin { LearnedReason(Ranked[i].action_type) :
                             i \in 1..Len(Ranked) } \cup {"no_banner_detected"}
PastTier2 ==
    \/ Tier3Events # {}
    \/ PastTier1 /\ result[2] # "fallback_click"

FailedOutcomes == { "locate_error", "not_visible", "click_error" }

\* C15: the candidates are tried tier by tier: a fallback selector is tried
\* only after every learned pattern of the domain was tried, in ranking
\* order, and failed; the keyword scan is entered only after every fallback
\* selector was tried, in list order, and failed.
C15_TiersInStrictOrder ==
    InCall =>
        /\ \A i, j \in 1..Len(trace) : i < j => trace[i].tier <= trace[j].tier
        /\ PastTier1 =>
               /\ Cardinality(Tier1Events) = Len(Ranked)
               /\ \A i \in 1..Len(Ranked) :
                      /\ trace[i].tier = 1
                      /\ trace[i].selector = Ranked[i].selector
                      /\ trace[i].outcome \in FailedOutcomes
        /\ PastTier2 =>
               /\ Cardinality(Tier2Events) = Len(fallback_selectors)
               /\ \A i \in 1..Len(fallback_selectors) :
                      /\ trace[Len(Ranked) + i].tier = 2
                      /\ trace[Len(Ranked) + i].selector = fallback_selectors[i]
                      /\ trace[Len(Ranked) + i].outcome \in FailedOutcomes

\* the keyword scan clicked an element on a domain with two learned patterns
C15_Witness ==
    /\ InCall
    /\ Len(Ranked) = 2
    /\ \E i \in Tier3Events : trace[i].outcome = "clicked"

-----------------------------------------------------------------------------
(* C16 *)

\* the score the in-memory entry of a Tier 1 candidate had when the call
\* started
CachedScore(ev) ==
    LET mem == pre.cache[CallDomain]
        k == CHOOSE i \in 1..Len(mem) :
                 /\ mem[i].selector = ev.selector
                 /\ mem[i].action_type = ev.arg
    IN  mem[k].effectiveness_score

\* C16: Tier 1 tries the domain's in-memory patterns in non-increasing order
\* of their effectiveness_score, wherever they stand in the list: a pattern
\* is tried only after every in-memory pattern of the domain with a strictly
\* higher score was tried.
C16_Tier1HighestScoreFirst ==
    InCall =>
        \A i \in Tier1Events :
            LET mem == pre.cache[CallDomain]
            IN  \A k \in 1..Len(mem) :
                    ScoreLess(CachedScore(trace[i]), mem[k].effectiveness_score)
                    => \E j \in 1..(i - 1) :
                           /\ trace[j].tier = 1
                           /\ trace[j].selector = mem[k].selector
                           /\ trace[j].arg = mem[k].action_type

\* Tier 1 tried two patterns of a list in which the pattern learned during
\* the session stands after a pattern with a lower score
C16_Witness ==
    /\ InCall
    /\ ~SortedDesc(pre.cache[CallDomain])
    /\ Cardinality(Tier1Events) >= 2
    /\ ScoreLess(CachedScore(trace[2]), CachedScore(trace[1]))

-----------------------------------------------------------------------------
(* C17 *)

InDetection == call.state = "detected"

\* s is the beginning of t
IsPrefix(s, t) == Len(s) <= Len(t) /\ s = SubSeq(t, 1, Len(s))

\* the learned selectors of the domain, highest score first, then the fixed
\* selectors
RankedCandidates ==
    LET ranked == SortDesc(pre.cache[get_domain_from_url(call.url)])
    IN  [ i \in 1..Len(ranked) |-> ranked[i].selector ] \o cookie_selectors

\* C17: detection evaluates its candidates in this order: the learned
\* selectors of the domain, highest score first, then the fixed selectors in
\* their fixed order.
C17_LearnedCandidatesHighestFirst ==
    InDetection => IsPrefix(trace, RankedCandidates)

-----------------------------------------------------------------------------
(* C18 *)

EvidenceCount == Len(result.detected_elements)

\* C18: detection never returns more than three detected elements and stops
\* at the candidate that gave the third; has_cookie_banner says whether
\* there is any, confidence is min(count / 3, 1), and every detected element
\* was visible when it was checked.
C18_AtMostThreeVisibleEvidence ==
    InDetection =>
        /\ EvidenceCount <= 3
        /\ EvidenceCount = 3
           => trace[Len(trace)] = result.detected_elements[3].selector
        /\ result.has_cookie_banner <=> EvidenceCount > 0
        /\ ScoreEq(result.confidence,
                   IF EvidenceCount >= 3 THEN Ratio(1, 1)
                   ELSE Ratio(EvidenceCount, 3))
        /\ \A i \in 1..EvidenceCount :
               /\ result.detected_elements[i].is_visible
               /\ \E j \in 1..Len(Matches(call.page,
                                           result.detected_elements[i].selector)) :
                      Matches(call.page,
                              result.detected_elements[i].selector)[j]

\* the scan stopped inside a candidate with four visible elements, before
\* the end of the candidate list
C18_Witness ==
    /\ InDetection
    /\ EvidenceCount = 3
    /\ Len(Matches(call.page, trace[Len(trace)])) = 4
    /\ Len(trace) < Len(RankedCandidates)
    /\ call.page.fault = NoFault

-----------------------------------------------------------------------------
(* C19 *)

\* the candidate list as detection builds it
CallCandidates ==
    DetectionCandidates(pre.cache, get_domain_from_url(call.url))

\* the calls on element j of the candidate complete
Reached(selector, j) ==
    /\ ~Raises(call.page, "detect", selector)
    /\ \A k \in 1..j : call.page.fault # DetFault(selector, k)

\* the visible elements of the candidates from position i on whose calls
\* complete
RECURSIVE ReachedVisible(_)
ReachedVisible(i) ==
    IF i > Len(CallCandidates) THEN 0
    ELSE Cardinality({ j \in 1..Len(Matches(call.page, CallCandidates[i])) :
                         /\ Matches(call.page, CallCandidates[i])[j]
                         /\ Reached(CallCandidates[i], j) })
         + ReachedVisible(i + 1)

\* C19: a call that raises while one candidate is evaluated does not end the
\* scan: what was detected before is kept and the later candidates are
\* evaluated, so every visible element whose calls complete counts (up to
\* three), and one such element suffices for has_cookie_banner.
C19_RaisingCandidateIsSkipped ==
    InDetection =>
        /\ IsPrefix(trace, CallCandidates)
        /\ EvidenceCount < 3 => trace = CallCandidates
        /\ EvidenceCount =
               (IF ReachedVisible(1) >= 3 THEN 3 ELSE ReachedVisible(1))
        /\ ReachedVisible(1) > 0 => result.has_cookie_banner

\* a call on the second element of a candidate raised after its first
\* element was detected, and a later candidate was detected too
C19_Witness ==
    /\ InDetection
    /\ call.page.fault.kind = "detect_element"
    /\ call.page.fault.idx >= 2
    /\ EvidenceCount >= 2
    /\ result.detected_elements[1].selector = call.page.fault.sel
    /\ result.detected_elements[EvidenceCount].selector # call.page.fault.sel
    /\ result.has_cookie_banner

-----------------------------------------------------------------------------
(* C20 *)

\* C20: when the database fails while an outcome is recorded or a pattern is
\* learned, handle_cookie_consent still returns the success of the tier that
\* clicked, and the domain's in-memory list is updated all the same: it has
\* an entry for every key an outcome was recorded for, and it differs from
\* the list before the call.
C20_StoreFailureKeepsDecisionAndCache ==
    (InCall /\ ~call.dbOk /\ RecordedKeys # {}) =>
        /\ (\E i \in 1..Len(trace) : trace[i].clicked) => result[1]
        /\ \A key \in RecordedKeys :
               \E j \in 1..Len(cache[CallDomain]) :
                   /\ cache[CallDomain][j].selector = key[1]
                   /\ cache[CallDomain][j].action_type = key[2]
        /\ cache[CallDomain] # pre.cache[CallDomain]

\* the decision is not aborted by a database failure
DecisionKeptOnStoreFailure ==
    (InCall /\ ~call.dbOk /\ RecordedKeys # {}) =>
        ((\E i \in 1..Len(trace) : trace[i].clicked) => result[1])

-----------------------------------------------------------------------------
(* Sessions in which _learn_new_pattern is also called on its own *)

\* the keys _learn_new_pattern is called with: one that is learned and in
\* memory, one a table may hold below the load floor, one of another domain
LearnKeys ==
    { <<HostA, "#acceptBtn">>, <<HostA, AcceptAll>>, <<HostB, ".cookie-banner">> }

\* one whole _learn_new_pattern(domain, selector, action_type, success) call
LearnNewPattern(domain, selector, action_type, success, dbOk) ==
    /\ call = Idle
    /\ TotalUses(store) < MaxUpsertOutcomes
    /\ \E out \in { learn_new_pattern(store, cache, dbOk, domain, selector,
                                       action_type, success) } :
           /\ store' = out.store
           /\ cache' = out.cache
    /\ call' = [ state |-> "learned", domain |-> domain, selector |-> selector,
                 action_type |-> action_type, success |-> success,
                 dbOk |-> dbOk ]
    /\ pre' = [ store |-> store, cache |-> cache ]
    /\ UNCHANGED <<result, trace>>

HandleConsentUpsert(url, page, dbOk) ==
    /\ TotalUses(store) < MaxUpsertOutcomes
    /\ Handle(url, page, dbOk)

NextUpsert ==
    \/ \E url \in SessionUrls, page \in Pages :
           HandleConsentUpsert(url, page, TRUE)
    \/ \E key \in LearnKeys, success \in BOOLEAN, dbOk \in BOOLEAN :
           LearnNewPattern(key[1], key[2], "click", success, dbOk)
    \/ TakeResult
    \/ Restart

SpecUpsert == Init /\ [][NextUpsert]_vars

-----------------------------------------------------------------------------
(* C21 *)

\* the outcomes a call recorded, as <<domain, selector, action type,
\* success>>: c is the call, tr its trace
OutcomesOf(c, tr) ==
    IF c.state = "learned"
    THEN { <<c.domain, c.selector, c.action_type, c.success>> }
    ELSE IF c.state = "returned"
    THEN { <<get_domain_from_url(c.url), tr[i].selector, tr[i].arg,
             tr[i].outcome \in {"clicked", "no_action"}>> :
             i \in { j \in 1..Len(tr) :
                       /\ tr[j].tier = 1
                       /\ tr[j].outcome # "not_visible" } }
         \cup { <<get_domain_from_url(c.url), tr[i].selector, "click", TRUE>> :
                  i \in { j \in 1..Len(tr) :
                            /\ tr[j].tier \in {2, 3}
                            /\ tr[j].outcome = "clicked" } }
    ELSE {}

\* the outcomes the call in the state recorded
RecordedOutcomes == OutcomesOf(call, trace)

\* the rows of the key
RowsOf(db, o) ==
    { i \in 1..Len(db) : /\ db[i].domain = o[1]
                         /\ db[i].selector_used = o[2]
                         /\ db[i].action_type = o[3] }

\* the table after is the table before with outcome o recorded as an upsert
Upserted(before, after, o) ==
    LET k == FindRow(before, o[1], o[2], o[3])
    IN  IF k # 0
        THEN /\ RowsOf(after, o) = RowsOf(before, o)
             /\ after[k].success_count
                    = before[k].success_count + (IF o[4] THEN 1 ELSE 0)
             /\ after[k].failure_count
                    = before[k].failure_count + (IF o[4] THEN 0 ELSE 1)
             /\ ExactScore(after[k])
        ELSE \E j \in (Len(before) + 1)..Len(after) :
                 /\ RowsOf(after, o) = {j}
                 /\ after[j] =
                        Row(o[1], o[2], o[3],
                            IF o[4] THEN 1 ELSE 0,
                            IF o[4] THEN 0 ELSE 1,
                            IF o[4] THEN Ratio(4, 5) ELSE Ratio(1, 5))

\* a call whose database calls succeed has returned
Recorded ==
    /\ call.state \in {"returned", "learned"}
    /\ call.dbOk

\* C21: every outcome a call records (Tier 1 through _record_pattern_usage,
\* Tier 2 and Tier 3 and direct calls through _learn_new_pattern) is an
\* upsert: an existing row of the key gets exactly one of success_count and
\* failure_count raised by one and its score recomputed from the counters;
\* without a row, one row is inserted with counters 1/0 and score 0.8 for a
\* success, 0/1 and 0.2 for a failure.
C21_RecordingIsAnUpsert ==
    Recorded => \A o \in RecordedOutcomes : Upserted(pre.store, store, o)

\* a Tier 1 failure was recorded on an existing row and a fallback click
\* inserted a row in the same call
C21_Witness ==
    /\ Recorded /\ call.state = "returned"
    /\ \E o \in RecordedOutcomes :
           ~o[4] /\ FindRow(pre.store, o[1], o[2], o[3]) # 0
    /\ \E o \in RecordedOutcomes :
           o[4] /\ FindRow(pre.store, o[1], o[2], o[3]) = 0

\* a failure was learned for a key without a row
FailureLearned ==
    /\ Recorded /\ call.state = "learned"
    /\ ~call.success
    /\ FindRow(pre.store, call.domain, call.selector, call.action_type) = 0
    /\ Len(store) = Len(pre.store) + 1

-----------------------------------------------------------------------------
(* Construction on the tables a process may find *)

\* rows as the code writes them: inserted with a prior, or scored by their
\* counters (3 successes in 10 uses give exactly 0.3)
StartupRows ==
    { Row(HostA, "#acceptBtn", "click", 1, 0, FirstSuccessPrior),
      Row(HostA, AcceptAll, "click", 0, 1, FirstFailurePrior),
      Row(HostB, ".cookie-banner", "click", 3, 7, Ratio(3, 10)),
      Row(HostB, "a", "click", 1, 1, Ratio(1, 2)),
      Row(HostA, ".btn", "click", 2, 0, Ratio(2, 2)),
      Row(HostA, "a", "click", 1, 2, Ratio(1, 3)) }

\* tables of up to three of these rows, in any rowid order
StartupStores ==
    UNION { { db \in [ 1..n -> StartupRows ] :
                \A i, j \in 1..n : i # j => db[i] # db[j] } : n \in 0..3 }

InitStartup ==
    /\ store \in StartupStores
    /\ cache = EmptyCache
    /\ call = [ state |-> "constructing" ]
    /\ pre = NoSnapshot
    /\ result = NoResult
    /\ trace = <<>>

\* __init__ after self.cookie_patterns = {}: _load_patterns()
Construct ==
    /\ call.state = "constructing"
    /\ cache' = load_patterns(store)
    /\ call' = [ state |-> "constructed" ]
    /\ pre' = [ store |-> store, cache |-> cache ]
    /\ UNCHANGED <<store, result, trace>>

NextStartup ==
    \/ Construct
    \/ TakeResult
    \/ Restart

SpecStartup == InitStartup /\ [][NextStartup]_vars

-----------------------------------------------------------------------------
(* C22 *)

\* the rows of the domain with effectiveness_score > 0.3
LoadableRows(d) ==
    { i \in 1..Len(store) :
        /\ store[i].domain = d
        /\ 3 * store[i].effectiveness_score[2]
               < 10 * store[i].effectiveness_score[1] }

\* C22: right after construction the in-memory list of every domain holds
\* exactly the rows of that domain whose effectiveness_score is strictly
\* greater than 0.3, each once (a row at exactly 0.3 or at the 0.2 prior is
\* left out), in non-increasing order of score.
C22_StartupCacheIsTheRowsAboveFloor ==
    call.state = "constructed" =>
        \A d \in Domains :
            /\ Len(cache[d]) = Cardinality(LoadableRows(d))
            /\ \A i \in LoadableRows(d) :
                   \E j \in 1..Len(cache[d]) :
                       /\ cache[d][j].selector = store[i].selector_used
                       /\ cache[d][j].action_type = store[i].action_type
                       /\ cache[d][j].effectiveness_score
                              = store[i].effectiveness_score
            /\ \A j \in 1..(Len(cache[d]) - 1) :
                   ScoreLeq(cache[d][j + 1].effectiveness_score,
                            cache[d][j].effectiveness_score)

\* a table with the row at exactly 0.3 and two rows of a.io whose rowid order
\* is not their score order
C22_Witness ==
    /\ call.state = "constructed"
    /\ \E i \in 1..Len(store) :
           ScoreEq(store[i].effectiveness_score, Ratio(3, 10))
    /\ cache[HostB] = <<>>
    /\ Len(cache[HostA]) = 2
    /\ cache[HostA][1].selector = store[Len(store)].selector_used
    /\ ScoreLess(cache[HostA][2].effectiveness_score,
                 cache[HostA][1].effectiveness_score)

-----------------------------------------------------------------------------
(* C23 *)

\* the selectors a Tier 2 or Tier 3 click of the call learned
LearnedSelectors ==
    { trace[i].selector :
        i \in { j \in 1..Len(trace) : /\ trace[j].tier \in {2, 3}
                                       /\ trace[j].outcome = "clicked" } }

\* the keys Tier 1 of the next call on the domain goes through
InMemoryKeys(d) ==
    { <<cache[d][j].selector, cache[d][j].action_type>> :
        j \in 1..Len(cache[d]) }

\* C23: once a Tier 2 or Tier 3 click has learned (domain, S, "click"), the
\* database answering, the domain's in-memory list has an entry (S, "click"),
\* whether the table held a row of that key before or not; Tier 1 of the
\* next call on the domain therefore tries S before any fallback selector.
C23_LearnedPatternIsInMemory ==
    (InCall /\ call.dbOk) =>
        \A selector \in LearnedSelectors :
            <<selector, "click">> \in InMemoryKeys(CallDomain)

-----------------------------------------------------------------------------
(* C24 *)

RowKey(r) == <<r.domain, r.selector_used, r.action_type>>

\* the number of outcomes call c with trace tr recorded for the row's key
OutcomesFor(r, c, tr) ==
    IF c.state \in {"returned", "learned"} /\ c.dbOk
    THEN Cardinality({ o \in OutcomesOf(c, tr) :
                         <<o[1], o[2], o[3]>> = RowKey(r) })
    ELSE 0

\* one step keeps every row at its place with its key, lowers neither
\* counter and raises success_count + failure_count by the number of
\* outcomes recorded for the key, which is at most one
RowsOnlyGrow ==
    /\ Len(store') >= Len(store)
    /\ \A i \in 1..Len(store) :
           /\ RowKey(store'[i]) = RowKey(store[i])
           /\ store'[i].success_count >= store[i].success_count
           /\ store'[i].failure_count >= store[i].failure_count
           /\ OutcomesFor(store[i], call', trace') <= 1
           /\ Uses(store'[i])
                  = Uses(store[i]) + OutcomesFor(store[i], call', trace')

\* C24: over any sequence of calls and restarts no row of the table is
\* deleted, no row's success_count or failure_count decreases, and
\* success_count + failure_count of a row rises by exactly one with each
\* outcome recorded for its key (and not otherwise).
C24_RowsOnlyGrow == [][RowsOnlyGrow]_vars

\* a failure was recorded on a row that had a success
C24_Witness ==
    /\ Recorded
    /\ \E i \in 1..Len(pre.store) :
           /\ pre.store[i].success_count >= 1
           /\ store[i].failure_count = pre.store[i].failure_count + 1
           /\ store[i].success_count = pre.store[i].success_count

-----------------------------------------------------------------------------
(* Two instances on one table, each in its own process *)

Sessions == {1, 2}

\* a session outside _record_pattern_usage
Waiting == [ pc |-> "waiting" ]

\* both instances were constructed on the same table; cache is the
\* in-memory list of either (_record_pattern_usage does not touch it)
InitShared ==
    /\ store \in AgedStores
    /\ cache = load_patterns(store)
    /\ call = [ state |-> "shared", session |-> [ n \in Sessions |-> Waiting ] ]
    /\ pre = NoSnapshot
    /\ result = NoResult
    /\ trace = <<>>

SessionStep(n, next) ==
    call' = [ call EXCEPT !.session[n] = next ]

\* session n enters _record_pattern_usage(domain, selector, action_type,
\* success) for one of its in-memory patterns, as Tier 1 does; pre keeps the
\* table as it was when no session was inside the function
EnterRecord(n, i, success) ==
    /\ call.session[n] = Waiting
    /\ TotalUses(store) < MaxAgedOutcomes
    /\ i \in 1..Len(cache[HostA])
    /\ SessionStep(n, [ pc |-> "select", domain |-> HostA,
                        selector |-> cache[HostA][i].selector,
                        action_type |-> cache[HostA][i].action_type,
                        success |-> success ])
    /\ pre' = IF \A m \in Sessions : call.session[m] = Waiting
              THEN [ store |-> store, cache |-> cache ]
              ELSE pre
    /\ UNCHANGED <<store, cache, result, trace>>

\* SELECT id, success_count, failure_count ... ; result = cursor.fetchone()
SelectRow(n) ==
    /\ call.session[n].pc = "select"
    /\ LET me == call.session[n]
           k == FindRow(store, me.domain, me.selector, me.action_type)
       IN  SessionStep(n, [ pc |-> "update", domain |-> me.domain,
                            selector |-> me.selector,
                            action_type |-> me.action_type,
                            success |-> me.success,
                            pattern_id |-> k,
                            fetched |-> IF k = 0 THEN Row(me.domain, me.selector,
                                                         me.action_type, 0, 0,
                                                         NoUsesScore)
                                        ELSE store[k] ])
    /\ UNCHANGED <<store, cache, pre, result, trace>>

\* if result: the counters read are raised and written back by id; commit
UpdateRow(n) ==
    /\ call.session[n].pc = "update"
    /\ LET me == call.session[n]
       IN  /\ store' = IF me.pattern_id = 0 THEN store
                       ELSE [ store EXCEPT ![me.pattern_id] =
                                  UpdatedRow(me.fetched, me.success) ]
           /\ SessionStep(n, [ pc |-> "recorded", domain |-> me.domain,
                               selector |-> me.selector,
                               action_type |-> me.action_type,
                               success |-> me.success ])
    /\ UNCHANGED <<cache, pre, result, trace>>

\* the sessions that are inside the function have all left it
LeaveRecord ==
    /\ \E n \in Sessions : call.session[n] # Waiting
    /\ \A n \in Sessions : call.session[n].pc \in {"waiting", "recorded"}
    /\ call' = [ call EXCEPT !.session = [ n \in Sessions |-> Waiting ] ]
    /\ pre' = NoSnapshot
    /\ UNCHANGED <<store, cache, result, trace>>

NextShared ==
    \/ \E n \in Sessions, i \in 1..2, success \in BOOLEAN :
           EnterRecord(n, i, success)
    \/ \E n \in Sessions : SelectRow(n)
    \/ \E n \in Sessions : UpdateRow(n)
    \/ LeaveRecord

SpecShared == InitShared /\ [][NextShared]_vars

-----------------------------------------------------------------------------
(* C25 *)

\* both sessions have recorded an outcome for the same key since the table
\* was saved in pre
BothRecorded ==
    /\ call.state = "shared"
    /\ \A n \in Sessions : call.session[n].pc = "recorded"
    /\ call.session[1].selector = call.session[2].selector
    /\ call.session[1].action_type = call.session[2].action_type

\* C25: when two sessions on one table have each recorded an outcome for
\* the same existing key, however their SELECT and UPDATE statements were
\* interleaved, success_count + failure_count of the row is two higher than
\* before and the score is the ratio of the final counters.
C25_NoLostUpdate ==
    BothRecorded =>
        LET k == FindRow(pre.store, HostA, call.session[1].selector,
                         call.session[1].action_type)
        IN  /\ k # 0
            /\ Uses(store[k]) = Uses(pre.store[k]) + 2
            /\ ExactScore(store[k])

-----------------------------------------------------------------------------
(* C26 *)

\* the reasons that report a dismissal
DismissalReasons ==
    { "fallback_click" }
    \cup { LearnedReason(Ranked[i].action_type) : i \in 1..Len(Ranked) }
    \cup { TextReason(cookie_keywords[k]) : k \in 1..Len(cookie_keywords) }

\* element.click() completed on a visible element of the call
ClickedVisible ==
    \E i \in Clicked :
        \/ trace[i].tier \in {1, 2} /\ IsVisible(call.page, trace[i].selector)
        \/ trace[i].tier = 3 /\ trace[i].selector \in call.page.shown

\* C26: the call returns "learned_pattern_<action type>", "fallback_click"
\* or "text_detection_<keyword>" only if element.click() completed on a
\* visible element during the call, whatever the stored action type is, and
\* it returns (False, "no_suitable_element_found") only if no click
\* completed during the call.
C26_HandledFlagIsFaithful ==
    InCall =>
        /\ result[2] \in DismissalReasons => (result[1] /\ ClickedVisible)
        /\ result = <<FALSE, "no_suitable_element_found">> => Clicked = {}

\* the first half of C26 alone, the second half alone
SuccessMeansClicked ==
    InCall => (result[2] \in DismissalReasons => ClickedVisible)
FailureMeansNoClick ==
    InCall => (result = <<FALSE, "no_suitable_element_found">> => Clicked = {})

-----------------------------------------------------------------------------
(* C27 *)

\* the keys a Tier 2 or Tier 3 click of the call learned
LearnedKeys == { <<CallDomain, selector, "click">> : selector \in LearnedSelectors }

\* C27: the table never holds two rows with the same (domain,
\* selector_used, action_type), and a Tier 2 or Tier 3 click whose key has a
\* row already leaves the key with that one row instead of inserting.
C27_NoTwoRowsWithOneKey ==
    /\ \A i, j \in 1..Len(store) :
           RowKey(store[i]) = RowKey(store[j]) => i = j
    /\ (InCall /\ call.dbOk) =>
           \A key \in LearnedKeys :
               RowsOf(pre.store, key) # {}
               => RowsOf(store, key) = RowsOf(pre.store, key)

\* a fallback click learned a key whose row was not in memory, in a table
\* with one row
C27_Witness ==
    /\ InCall /\ call.dbOk
    /\ \E key \in LearnedKeys : RowsOf(pre.store, key) # {}
    /\ Len(store) = 1
    /\ result = <<TRUE, "fallback_click">>

-----------------------------------------------------------------------------
(* C28 *)

\* C28: in every state every in-memory pattern of a domain has a row with
\* its (domain, selector, action type) in the table, and no domain's
\* in-memory list holds two entries with the same (selector, action type).
C28_MemoryEntriesHaveRowsAndAreUnique ==
    \A d \in Domains :
        /\ \A j \in 1..Len(cache[d]) :
               \E i \in 1..Len(store) :
                   RowKey(store[i])
                       = <<d, cache[d][j].selector, cache[d][j].action_type>>
        /\ \A i, j \in 1..Len(cache[d]) :
               ( /\ cache[d][i].selector = cache[d][j].selector
                 /\ cache[d][i].action_type = cache[d][j].action_type )
               => i = j

\* the call appended a learned pattern to a list that had entries, while
\* the table holds a row that is not in memory
C28_Witness ==
    /\ InCall
    /\ pre.cache[CallDomain] # <<>>
    /\ Len(cache[CallDomain]) = Len(pre.cache[CallDomain]) + 1
    /\ Len(store) = Len(pre.store) + 1

-----------------------------------------------------------------------------
(* Sessions that browse two sites *)

\* tables with a row of one domain whose selector the other domain's pages
\* can show as well
SiteStores ==
    { <<>>,
      << Row(HostB, AcceptAll, "click", 1, 0, FirstSuccessPrior) >>,
      << Row(HostB, "#acceptBtn", "click", 1, 0, FirstSuccessPrior) >>,
      << Row(HostB, "a", "click", 1, 0, FirstSuccessPrior) >>,
      << Row(HostA, "a", "click", 0, 1, FirstFailurePrior) >> }

InitSites ==
    /\ store \in SiteStores
    /\ cache = load_patterns(store)
    /\ call = Idle
    /\ pre = NoSnapshot
    /\ result = NoResult
    /\ trace = <<>>

NextSites ==
    \/ \E url \in Urls, page \in Pages, dbOk \in BOOLEAN :
           /\ dbOk \/ page.fault = NoFault
           /\ HandleConsentUpsert(url, page, dbOk)
    \/ TakeResult
    \/ Restart

SpecSites == InitSites /\ [][NextSites]_vars

-----------------------------------------------------------------------------
(* C29 *)

\* C29: a call for a URL of domain D leaves the in-memory list of every
\* other domain and every row of another domain as they were; it deletes no
\* row, and the rows it changes or inserts are rows of D whose key is one
\* the call recorded an outcome for.
C29_OnlyTheCallsDomainChanges ==
    InCall =>
        /\ \A d \in Domains \ {CallDomain} : cache[d] = pre.cache[d]
        /\ Len(store) >= Len(pre.store)
        /\ \A i \in 1..Len(store) :
               (i > Len(pre.store) \/ store[i] # pre.store[i])
               => /\ store[i].domain = CallDomain
                  /\ <<store[i].selector_used, store[i].action_type>>
                         \in RecordedKeys

\* a call on one domain wrote a row while the other domain has a row and an
\* in-memory pattern with the same selector
C29_Witness ==
    /\ InCall
    /\ \E i \in 1..Len(store) :
           /\ i > Len(pre.store) \/ store[i] # pre.store[i]
           /\ \E j \in 1..Len(pre.store) :
                  /\ pre.store[j].domain # CallDomain
                  /\ pre.store[j].selector_used = store[i].selector_used
    /\ \E d \in Domains \ {CallDomain} : cache[d] # <<>>

-----------------------------------------------------------------------------
(* handle_cookie_consent candidate by candidate *)

\* AdvanceTo that stays where it is
StayAt(i) == i

\* the for loops: the index of the candidate after candidate i
AdvanceTo(i) == i + 1

\* one pass of the body of Tier 3's inner loop, for keyword k and element j:
\* the state afterwards and the position the loops go on from
TextCandidate(st, page, dbOk, domain, k, j) ==
    LET keyword == cookie_keywords[k]
        At(next, kk, jj) == [ st |-> next, k |-> kk, j |-> jj ]
        Skip(selector, outcome, clicked, kk, jj) ==
            At(Going(st.store, st.cache,
                     Append(st.trace, Event(3, selector, keyword.name, outcome,
                                            clicked, FALSE))),
               kk, jj)
    IN  IF ElemRaises(page, "query", 0)
        THEN Skip("", "query_error", FALSE, AdvanceTo(k), 1)
        ELSE IF j > Len(page.elems) THEN At(st, AdvanceTo(k), 1)
        ELSE
          LET element == page.elems[j]
              element_selector == ElementSelector(element)
          IN  IF ElemRaises(page, "text", j)
              THEN Skip(element_selector, "text_error", FALSE, k, AdvanceTo(j))
              ELSE IF ~TextMatches(element.text, keyword)
              THEN At(st, k, AdvanceTo(j))
              ELSE IF ~element.visible
              THEN Skip(element_selector, "not_visible", FALSE, k, AdvanceTo(j))
              ELSE IF ElemRaises(page, "click", j)
              THEN Skip(element_selector, "click_error", FALSE, k, AdvanceTo(j))
              ELSE IF ElemRaises(page, "evaluate", j)
              THEN Skip(element_selector, "evaluate_error", TRUE, k, AdvanceTo(j))
              ELSE LET learned == learn_new_pattern(st.store, st.cache, dbOk,
                                                    domain, element_selector,
                                                    "click", TRUE)
                   IN  At(Returned(learned.store, learned.cache,
                                   Append(st.trace,
                                          Event(3, element_selector, keyword.name,
                                                "clicked", TRUE, FALSE)),
                                   TRUE, TextReason(keyword)),
                          k, j)

\* one pass of the body of Tier 2's loop, for fallback selector i
FallbackAttempt(st, page, dbOk, domain, i) ==
    LET selector == fallback_selectors[i]
        Skip(outcome, clicked) ==
            Going(st.store, st.cache,
                  Append(st.trace, Event(2, selector, "click",
                                         outcome, clicked, FALSE)))
    IN  IF Raises(page, "locate", selector) THEN Skip("locate_error", FALSE)
        ELSE IF ~IsVisible(page, selector) THEN Skip("not_visible", FALSE)
        ELSE IF Raises(page, "click", selector) THEN Skip("click_error", FALSE)
        ELSE LET learned == learn_new_pattern(st.store, st.cache, dbOk,
                                              domain, selector, "click", TRUE)
             IN  IF learned.raised THEN Skip("learn_error", TRUE)
                 ELSE Returned(learned.store, learned.cache,
                               Append(st.trace, Event(2, selector, "click",
                                                      "clicked", TRUE, FALSE)),
                               TRUE, "fallback_click")

\* the pages of these sessions: at most one selector of PageSelectors shown
StepPages == { page \in Pages : Cardinality(page.vis) <= 1 }

\* the call is inside handle_cookie_consent
Running == call.state = "running"

\* handle_cookie_consent(page, url) is entered: detection starts at its
\* first candidate
BeginCall(url, page, dbOk) ==
    /\ call = Idle
    /\ TotalUses(store) < MaxUpsertOutcomes
    /\ LET domain == get_domain_from_url(url)
       IN  call' = [ state |-> "running", url |-> url, page |-> page,
                     dbOk |-> dbOk, domain |-> domain,
                     candidates |-> DetectionCandidates(cache, domain),
                     tier |-> 0, i |-> 1, j |-> 1,
                     detected |-> NothingScanned, patterns |-> <<>> ]
    /\ pre' = [ store |-> store, cache |-> cache ]
    /\ UNCHANGED <<store, cache, result, trace>>

\* the call returns what st holds
ReturnFrom(st) ==
    /\ store' = st.store
    /\ cache' = st.cache
    /\ trace' = st.trace
    /\ result' = st.result
    /\ call' = [ state |-> "returned", url |-> call.url, page |-> call.page,
                 dbOk |-> call.dbOk ]
    /\ pre' = pre

\* the call goes on at position (tier, i, j) with what st holds
GoOn(st, tier, i, j) ==
    /\ store' = st.store
    /\ cache' = st.cache
    /\ trace' = st.trace
    /\ call' = [ call EXCEPT !.tier = tier, !.i = i, !.j = j ]
    /\ UNCHANGED <<result, pre>>

\* detection evaluates candidate i
DetectCandidate ==
    /\ Running /\ call.tier = 0
    /\ call.i <= Len(call.candidates)
    /\ \E acc \in { DetectScan(call.page, SubSeq(call.candidates, 1, call.i),
                                call.i, call.detected) } :
           call' = [ call EXCEPT
                       !.detected = acc,
                       !.i = IF Len(acc.detected_elements) >= EnoughEvidence
                             THEN Len(call.candidates) + 1
                             ELSE AdvanceTo(call.i) ]
    /\ UNCHANGED <<store, cache, pre, result, trace>>

\* Tier 1 tries learned pattern i
LearnedCandidate ==
    /\ Running /\ call.tier = 1
    /\ call.i <= Len(call.patterns)
    /\ \E out \in { TryLearned(Going(store, cache, trace), call.page,
                                call.dbOk, call.domain,
                                SubSeq(call.patterns, 1, call.i), call.i) } :
           IF out.done THEN ReturnFrom(out)
           ELSE GoOn(out, 1, AdvanceTo(call.i), 1)

\* Tier 2 tries fallback selector i
FallbackCandidate ==
    /\ Running /\ call.tier = 2
    /\ call.i <= Len(fallback_selectors)
    /\ \E out \in { FallbackAttempt(Going(store, cache, trace), call.page,
                                     call.dbOk, call.domain, call.i) } :
           IF out.done THEN ReturnFrom(out)
           ELSE GoOn(out, 2, AdvanceTo(call.i), 1)

\* Tier 3 looks at element j for keyword i
KeywordCandidate ==
    /\ Running /\ call.tier = 3
    /\ call.i <= Len(cookie_keywords)
    /\ \E out \in { TextCandidate(Going(store, cache, trace), call.page,
                                   call.dbOk, call.domain, call.i, call.j) } :
           IF out.st.done THEN ReturnFrom(out.st)
           ELSE GoOn(out.st, 3, out.k, out.j)

\* a loop is exhausted: detection decides, a tier hands over to the next,
\* the last tier returns
LoopExhausted ==
    /\ Running
    /\ CASE call.tier = 0 ->
               /\ call.i > Len(call.candidates)
               /\ IF ~HasBanner(call.detected.detected_elements)
                  THEN ReturnFrom(Returned(store, cache, <<>>, TRUE,
                                           "no_banner_detected"))
                  ELSE /\ call' = [ call EXCEPT
                                      !.tier = 1, !.i = 1, !.j = 1,
                                      !.patterns = SortDesc(cache[call.domain]) ]
                       /\ UNCHANGED <<store, cache, pre, result, trace>>
         [] call.tier = 1 ->
               /\ call.i > Len(call.patterns)
               /\ GoOn(Going(store, cache, trace), 2, 1, 1)
         [] call.tier = 2 ->
               /\ call.i > Len(fallback_selectors)
               /\ GoOn(Going(store, cache, trace), 3, 1, 1)
         [] call.tier = 3 ->
               /\ call.i > Len(cookie_keywords)
               /\ ReturnFrom(Returned(store, cache, trace, FALSE,
                                      "no_suitable_element_found"))

\* the caller takes the tuple the call returned
TakeReturned == InCall /\ TakeResult

\* the steps inside a call
CallStep ==
    \/ DetectCandidate
    \/ LearnedCandidate
    \/ FallbackCandidate
    \/ KeywordCandidate
    \/ LoopExhausted

NextSteps ==
    \/ \E url \in SessionUrls, page \in StepPages, dbOk \in BOOLEAN :
           /\ dbOk \/ page.fault = NoFault
           /\ BeginCall(url, page, dbOk)
    \/ CallStep
    \/ TakeReturned
    \/ Restart

\* the event loop runs an awaited call on as long as its driver calls
\* return or raise
SpecSteps == Init /\ [][NextSteps]_vars /\ WF_vars(CallStep)

-----------------------------------------------------------------------------
(* C30 *)

\* position a comes before position b: tier, then index, then inner index
Before(a, b) ==
    \/ a.tier < b.tier
    \/ a.tier = b.tier /\ a.i < b.i
    \/ a.tier = b.tier /\ a.i = b.i /\ a.j < b.j

\* a step inside a call moves on to a later candidate
MovesOn == (Running /\ Running') => Before(call, call')

\* the call returned what handle_cookie_consent as a whole gives on the
\* state it was entered in
SameAsWhole ==
    InCall =>
        \E out \in { handle_cookie_consent(pre.store, pre.cache, call.page,
                                            call.url, call.dbOk) } :
            /\ store = out.store
            /\ cache = out.cache
            /\ result = out.result
            /\ trace = out.trace

\* C30: every handle_cookie_consent call returns: each step inside a call
\* moves on to a later candidate of detection, Tier 1, Tier 2 or Tier 3 (so
\* no candidate is tried twice), and a call that was entered eventually
\* returns a result, whatever the page shows and whichever call raises.
C30_EveryCallReturns ==
    /\ [][MovesOn]_vars
    /\ Running ~> InCall

\* a call went through detection and all three tiers and returned that
\* nothing suitable was found
C30_Witness ==
    /\ InCall
    /\ Ranked # <<>>
    /\ Tier1Events # {} /\ Tier2Events # {} /\ Tier3Events # {}
    /\ result = <<FALSE, "no_suitable_element_found">>

====
